---- MODULE Spec2Model ----
(***************************************************************************)
(* A model of the sunbeam/microstack operator CLI:                         *)
(*   - the `configure` command and its step runner                         *)
(*     (src/sunbeam/commands/configure.py),                                *)
(*   - the `launch` command (src/sunbeam/commands/launch.py),              *)
(*   - the free network interface computation get_free_nics               *)
(*     (src/sunbeam/commands/configure.py).                                *)
(* The Juju helper, the Terraform helper, the OpenStack SDK and the host's *)
(* network interfaces are the environment: what they answer is chosen      *)
(* nondeterministically from small sets.                                   *)
(***************************************************************************)
EXTENDS Integers, Sequences, FiniteSets, TLC

VARIABLES
    pc,                 \* position of the running command
    cmd,                \* the command being run: "none", "configure", "launch"
    invocation,         \* number of commands invoked so far
    opts,               \* the command line options of the running command
    step,               \* configure: index into plan of the step being handled
    result,             \* configure: the local variable `result` of the loop
    status_running,     \* configure: whether the console status indicator spins
    exit,               \* how the command ended
    admin_credentials,  \* the admin account the command retrieved
    tf_output,          \* UserOpenRCStep.run: the parsed `terraform output -json`
    emitting,           \* UserOpenRCStep.run: "openrc", "clouds" or "none"
    files,              \* the files at the --openrc and --clouds paths
    console,            \* what console.print was given, in order
    log,                \* history: the calls made by the running command, in order
    conn,               \* launch: whether openstack.connect returned a connection
    cloud,              \* launch: the resources held by the OpenStack cloud
    key_file,           \* launch: the file at key_path
    held,               \* launch: what the cloud holds of the server, floating
                        \* IP and attachment the running launch created
    nics,               \* get_free_nics: the host's network interfaces
    nic_calls,          \* get_free_nics: results of the calls completed so far
    unit_step,          \* a step object run on its own, as the unit tests do
    unit_runs,          \* what each run of unit_step did, in order
    answers,            \* ConfigureCloudStep: the persisted answer bank
    loaded,             \* ConfigureCloudStep: what load_answers() returned
    variables,          \* ConfigureCloudStep: self.variables
    preseed_file,       \* ConfigureCloudStep: self.preseed_file
    prompt_locals,      \* ConfigureCloudStep.prompt: its local variables
    prompt_pc,          \* ConfigureCloudStep.prompt: its position
    prompt_log          \* ConfigureCloudStep: questions asked and calls made

cli_vars == <<pc, cmd, invocation, opts, step, result, status_running, exit,
              admin_credentials, tf_output, emitting, files, console, log,
              conn, cloud, key_file, held>>

prompt_vars == <<answers, loaded, variables, preseed_file, prompt_locals,
                 prompt_pc, prompt_log>>

nic_vars == <<nics, nic_calls, unit_step, unit_runs, prompt_vars>>

vars == <<pc, cmd, invocation, opts, step, result, status_running, exit,
          admin_credentials, tf_output, emitting, files, console, log,
          conn, cloud, key_file, held, nics, nic_calls, unit_step, unit_runs,
          answers, loaded, variables, preseed_file, prompt_locals, prompt_pc,
          prompt_log>>

----------------------------------------------------------------------------
(* Bounds of the model *)

\* commands invoked one after the other in one behaviour
MaxInvocations == 2

\* largest return-code the get-admin-account action answers with
MaxReturnCode == 2

\* largest exit code of a terraform subprocess
MaxExitCode == 2

\* calls of the Terraform helper one run of a step may make before the model
\* stops counting them
MaxHelperCalls == 2

\* network interfaces of an enumerated host
MaxNics == 2

\* calls of get_free_nics on one host
MaxNicCalls == 2

\* runs of one step object on its own
MaxUnitRuns == 2

----------------------------------------------------------------------------
(* Values *)

None == "None"

\* a dict with no key
NoDict == <<>>

Last(s) == s[Len(s)]

\* Python's dict.get(key, default)
DictGet(d, k, default) == IF k \in DOMAIN d THEN d[k] ELSE default

\* Result(ResultType.COMPLETED) and Result(ResultType.FAILED, message);
\* Unbound is the loop variable `result` before its first assignment
Unbound == [result_type |-> "UNBOUND", message |-> None]

Completed == [result_type |-> "COMPLETED", message |-> None]

Failed(message) == [result_type |-> "FAILED", message |-> message]

\* an entry of the history: the call made, the step of the plan making it
\* (0 outside the plan) and what is recorded of its answer
Ev(call, st, ret) == [call |-> call, step |-> st, ret |-> ret]

\* what a call does: it returns a value, or raises an exception
Returns(value) == [raised |-> "none", value |-> value]

Raises(exc, text) == [raised |-> exc, value |-> text]

\* how a command ends: exit code 0, a ClickException (message printed, exit
\* code 1) or any other exception (traceback)
Running == [kind |-> "running", message |-> None]

ExitOk == [kind |-> "ok", message |-> None]

ClickException(message) == [kind |-> "ClickException", message |-> message]

Uncaught(exc) == [kind |-> "Exception", message |-> exc]

\* what the keystone get-admin-account action answers, without a return-code
AdminAccount(url, ver) ==
    ("username" :> "admin") @@ ("password" :> "adminpw") @@
    ("public-endpoint" :> url) @@ ("user-domain-name" :> "admin_domain") @@
    ("project-domain-name" :> "admin_domain") @@ ("project-name" :> "admin") @@
    ("api-version" :> ver)

AdminAccounts ==
    { AdminAccount("http://10.20.21.10:80/openstack-keystone", "3"),
      AdminAccount("http://keystone:5000/v2.0", "2") }

\* the action's result: the return-code may be absent
ActionResults ==
    AdminAccounts \cup
    { acct @@ ("return-code" :> rc) : acct \in AdminAccounts, rc \in 0..MaxReturnCode }

\* recorded of an action's result: whether it holds a return-code above 1
ReturnCodeClass(action_result) ==
    IF "return-code" \in DOMAIN action_result /\ action_result["return-code"] >= 2
    THEN "above 1"
    ELSE "at most 1"

\* the model name in the snap's configuration, and what Juju may report
ControlPlaneModel == "openstack"

JujuModelSets == SUBSET {"controller", "openstack"}

----------------------------------------------------------------------------
(* configure: before the plan *)

launch_vars == <<conn, cloud, key_file, held>>

openrc_vars == <<tf_output, emitting, files>>

\* the command ends: by returning, or by an exception leaving it (which also
\* leaves any `with console.status(...)` block, stopping the indicator)
Exit(e) ==
    /\ pc' = "exited"
    /\ exit' = e
    /\ status_running' = FALSE

\* `microstack configure [-o OPENRC] [-c CLOUDS]` is invoked
InvokeConfigure ==
    /\ pc \in {"idle", "exited"}
    /\ invocation < MaxInvocations
    /\ \E openrc \in {None, "demo_openrc"}, clouds \in {None, "clouds.yaml"} :
           opts' = [openrc |-> openrc, clouds |-> clouds]
    /\ cmd' = "configure"
    /\ invocation' = invocation + 1
    /\ pc' = "get_models"
    /\ step' = 0
    /\ result' = Unbound
    /\ status_running' = FALSE
    /\ exit' = Running
    /\ admin_credentials' = NoDict
    /\ tf_output' = NoDict
    /\ emitting' = "none"
    /\ console' = <<>>
    /\ log' = <<>>
    /\ conn' = FALSE
    /\ held' = {}
    /\ UNCHANGED <<files, cloud, key_file, nic_vars>>

\* the check of the model left out
ModelMissingNever(model, models) == FALSE

\* `if model not in models`
ModelMissing(model, models) == model \notin models

\* configure up to the check of the control plane model
ConfigureGetModels ==
    /\ cmd = "configure"
    /\ pc = "get_models"
    /\ \E models \in JujuModelSets :
           /\ log' = Append(log, Ev("get_models", 0,
                                    IF ControlPlaneModel \in models THEN "present" ELSE "missing"))
           /\ IF ModelMissing(ControlPlaneModel, models)
              THEN Exit(ClickException("Please run microstack bootstrap first"))
              ELSE /\ pc' = "retrieve_admin_credentials"
                   /\ UNCHANGED <<exit, status_running>>
    /\ UNCHANGED <<cmd, invocation, opts, step, result, admin_credentials,
                   console, openrc_vars, launch_vars, nic_vars>>

\* the dict _retrieve_admin_credentials builds from the action's result
AdminCredentialsOf(action_result) ==
    ("OS_USERNAME" :> DictGet(action_result, "username", None)) @@
    ("OS_PASSWORD" :> DictGet(action_result, "password", None)) @@
    ("OS_AUTH_URL" :> DictGet(action_result, "public-endpoint", None)) @@
    ("OS_USER_DOMAIN_NAME" :> DictGet(action_result, "user-domain-name", None)) @@
    ("OS_PROJECT_DOMAIN_NAME" :> DictGet(action_result, "project-domain-name", None)) @@
    ("OS_PROJECT_NAME" :> DictGet(action_result, "project-name", None)) @@
    ("OS_AUTH_VERSION" :> DictGet(action_result, "api-version", None)) @@
    ("OS_IDENTITY_API_VERSION" :> DictGet(action_result, "api-version", None))

\* the threshold one lower: a return-code of 1 fails too
RetrieveActionFailedFromOne(action_result) == DictGet(action_result, "return-code", 0) > 0

\* `if action_result.get("return-code", 0) > 1` in _retrieve_admin_credentials
RetrieveActionFailed(action_result) == DictGet(action_result, "return-code", 0) > 1

\* _retrieve_admin_credentials, given what the get-admin-account action answered
retrieve_admin_credentials(action_result) ==
    IF RetrieveActionFailed(action_result)
    THEN Raises("ClickException", "Unable to retrieve openrc from Keystone service")
    ELSE Returns(AdminCredentialsOf(action_result))

\* the steps of configure's plan, in order
plan ==
    << "TerraformInitStep", "ConfigureCloudStep", "UserOpenRCStep",
       "UpdateExternalNetworkConfigStep" >>

\* a loop that takes up at the second step when configure was invoked before
FirstStepResumed == IF invocation > 1 THEN 2 ELSE 1

\* `for step in plan` starts at the first element of the plan
FirstStep == 1

\* configure from the call of _retrieve_admin_credentials to the built plan
ConfigureRetrieveAdminCredentials ==
    /\ cmd = "configure"
    /\ pc = "retrieve_admin_credentials"
    /\ \E action_result \in ActionResults :
           LET o == retrieve_admin_credentials(action_result) IN
           IF o.raised # "none"
           THEN /\ log' = Append(log, Ev("run_action", 0, ReturnCodeClass(action_result)))
                /\ Exit(ClickException(o.value))
                /\ UNCHANGED <<admin_credentials, step>>
           ELSE /\ log' = log \o << Ev("run_action", 0, ReturnCodeClass(action_result)),
                                    Ev("TerraformHelper", 0, "") >>
                /\ admin_credentials' = o.value
                /\ step' = FirstStep
                /\ pc' = "step"
                /\ UNCHANGED <<exit, status_running>>
    /\ UNCHANGED <<cmd, invocation, opts, result, console, openrc_vars,
                   launch_vars, nic_vars>>

----------------------------------------------------------------------------
(* The steps of the plan *)

\* exit codes of the terraform subprocess on the successive calls of a helper
\* during one run of a step (a step that calls it once reads only the first)
ExitCodeStreams == [1..MaxHelperCalls -> 0..MaxExitCode]

\* TerraformHelper.init / TerraformHelper.apply: the subprocess is run with
\* check=True and a non-zero exit is raised as TerraformException
TerraformHelperCall(subcommand, returncode) ==
    IF returncode # 0
    THEN Raises("TerraformException", <<"terraform", subcommand, "exited", returncode>>)
    ELSE Returns(None)

\* TerraformInitStep.run: what it returns or raises, and how often it called
\* the helper
TerraformInitStepRun(codes) ==
    LET o == TerraformHelperCall("init", codes[1]) IN
    [ calls   |-> 1,
      outcome |-> IF o.raised = "TerraformException"
                  THEN Returns(Failed(o.value))
                  ELSE Returns(Completed) ]

\* TerraformApplyStep.run
TerraformApplyStepRun(codes) ==
    LET o == TerraformHelperCall("apply", codes[1]) IN
    [ calls   |-> 1,
      outcome |-> IF o.raised = "TerraformException"
                  THEN Returns(Failed(o.value))
                  ELSE Returns(Completed) ]

\* a run that calls apply a second time when the first call raised
ConfigureCloudStepRunRetrying(codes) ==
    LET first == TerraformHelperCall("apply", codes[1])
        o     == IF first.raised = "none" THEN first
                 ELSE TerraformHelperCall("apply", codes[2]) IN
    [ calls   |-> IF first.raised = "none" THEN 1 ELSE 2,
      outcome |-> CASE o.raised = "none" -> Returns(Completed)
                    [] o.raised = "TerraformException" -> Returns(Failed(o.value))
                    [] OTHER -> o ]

\* ConfigureCloudStep.run: try tfhelper.apply(); except TerraformException
ConfigureCloudStepRun(codes) ==
    LET o == TerraformHelperCall("apply", codes[1]) IN
    [ calls   |-> 1,
      outcome |-> CASE o.raised = "none" -> Returns(Completed)
                    [] o.raised = "TerraformException" -> Returns(Failed(o.value))
                    [] OTHER -> o ]

\* what UpdateExternalNetworkConfigStep.run may return
UpdateExternalNetworkConfigResults ==
    {Completed, Failed("Failed to update external network configuration")}

\* has_prompts(): ConfigureCloudStep declares prompts, UserOpenRCStep inherits
\* BaseStep's answer, the other two classes may answer either way
ConfigureCloudStepHasPrompts == TRUE

BaseStepHasPrompts == FALSE

HasPromptsAnswers(name) ==
    CASE name = "ConfigureCloudStep" -> {ConfigureCloudStepHasPrompts}
      [] name = "UserOpenRCStep" -> {BaseStepHasPrompts}
      [] OTHER -> BOOLEAN

\* is_skip(): ConfigureCloudStep and UserOpenRCStep never skip, the other two
\* classes may answer either way
ConfigureCloudStepIsSkip == FALSE

UserOpenRCStepIsSkip == FALSE

IsSkipAnswers(name) ==
    CASE name = "ConfigureCloudStep" -> {ConfigureCloudStepIsSkip}
      [] name = "UserOpenRCStep" -> {UserOpenRCStepIsSkip}
      [] OTHER -> BOOLEAN

\* prompt(): ConfigureCloudStep.prompt returns, or an exception leaves it (an
\* unreadable preseed file, an answered CIDR that ipaddress rejects or that
\* has fewer than two hosts); the prompt of the other classes returns
PromptOutcomes(name) ==
    IF name = "ConfigureCloudStep"
    THEN {Returns(None), Raises("OSError", "preseed"), Raises("ValueError", "cidr"),
          Raises("IndexError", "hosts")}
    ELSE {Returns(None)}

----------------------------------------------------------------------------
(* configure: the step runner *)

\* the check of the result left out: no result counts as failed
ResultFailedNever(r) == FALSE

\* `if result.result_type == ResultType.FAILED`
ResultFailed(r) == r.result_type = "FAILED"

\* the loop moving on by two steps: the step in between is left out
NextStepLeavesOneOut ==
    IF step + 1 < Len(plan)
    THEN /\ step' = step + 2
         /\ pc' = "step"
    ELSE /\ step' = step
         /\ pc' = "disconnect"

\* the loop left after the step at hand, whatever its place in the plan
NextStepLeavesLoop ==
    /\ step' = step
    /\ pc' = "disconnect"

\* the loop moves on: to the next step of the plan, or past the loop
NextStep ==
    IF step < Len(plan)
    THEN /\ step' = step + 1
         /\ pc' = "step"
    ELSE /\ step' = step
         /\ pc' = "disconnect"

\* top of the loop body: the status indicator starts, has_prompts() is asked
StepBegin ==
    /\ cmd = "configure"
    /\ pc = "step"
    /\ status_running' = TRUE
    /\ \E has_prompts \in HasPromptsAnswers(plan[step]) :
           pc' = IF has_prompts THEN "prompt" ELSE "is_skip"
    /\ log' = Append(log, Ev("status.start", step, ""))
    /\ UNCHANGED <<cmd, invocation, opts, step, result, exit, admin_credentials,
                   console, openrc_vars, launch_vars, nic_vars>>

\* a prompt made with the status indicator left running
StepPromptUnderStatus ==
    /\ cmd = "configure"
    /\ pc = "prompt"
    /\ \E o \in PromptOutcomes(plan[step]) :
           IF o.raised = "none"
           THEN /\ log' = Append(log, Ev("prompt", step, "returned"))
                /\ pc' = "is_skip"
                /\ UNCHANGED <<exit, status_running>>
           ELSE /\ log' = Append(log, Ev("prompt", step, "raised"))
                /\ Exit(Uncaught(o.raised))
    /\ UNCHANGED <<cmd, invocation, opts, step, result, admin_credentials,
                   console, openrc_vars, launch_vars, nic_vars>>

\* status.stop(); step.prompt(console); status.start()
StepPrompt ==
    /\ cmd = "configure"
    /\ pc = "prompt"
    /\ \E o \in PromptOutcomes(plan[step]) :
           IF o.raised = "none"
           THEN /\ log' = log \o << Ev("status.stop", step, ""), Ev("prompt", step, "returned"),
                                    Ev("status.start", step, "") >>
                /\ pc' = "is_skip"
                /\ UNCHANGED <<exit, status_running>>
           ELSE /\ log' = log \o << Ev("status.stop", step, ""), Ev("prompt", step, "raised") >>
                /\ Exit(Uncaught(o.raised))
    /\ UNCHANGED <<cmd, invocation, opts, step, result, admin_credentials,
                   console, openrc_vars, launch_vars, nic_vars>>

\* the answer of is_skip() ignored: no step is skipped
SkipStepNever(is_skip) == FALSE

\* `if step.is_skip():`
SkipStep(is_skip) == is_skip

\* the check of is_skip(): a skipped step is printed as done and the loop
\* continues with the next step
StepIsSkip ==
    /\ cmd = "configure"
    /\ pc = "is_skip"
    /\ \E is_skip \in IsSkipAnswers(plan[step]) :
           /\ log' = Append(log, Ev("is_skip", step, IF is_skip THEN "True" ELSE "False"))
           /\ IF SkipStep(is_skip)
              THEN /\ console' = Append(console, <<"done", step>>)
                   /\ status_running' = FALSE
                   /\ NextStep
              ELSE /\ pc' = "run"
                   /\ UNCHANGED <<console, status_running, step>>
    /\ UNCHANGED <<cmd, invocation, opts, result, exit, admin_credentials,
                   openrc_vars, launch_vars, nic_vars>>

\* what is logged for one run of a step that called the helper `calls` times
RunEvents(helper, calls) ==
    << Ev("run", step, "") >> \o [i \in 1..calls |-> Ev(helper, step, "")]

\* recorded of the end of a run: the type of the result, or that it raised
RunEnd(outcome) ==
    Ev("run.end", step, IF outcome.raised = "none" THEN outcome.value.result_type ELSE "raised")

\* result = step.run(status), the run making the calls `events` and ending with
\* `outcome`; the status block is left, by the return or by the exception
StepRunEnds(events, outcome) ==
    /\ log' = log \o events \o <<RunEnd(outcome)>>
    /\ IF outcome.raised = "none"
       THEN /\ result' = outcome.value
            /\ pc' = "inspect"
            /\ status_running' = FALSE
            /\ UNCHANGED exit
       ELSE /\ Exit(Uncaught(outcome.raised))
            /\ UNCHANGED result

\* result = step.run(status) for TerraformInitStep
RunTerraformInit ==
    /\ cmd = "configure"
    /\ pc = "run"
    /\ plan[step] = "TerraformInitStep"
    /\ \E codes \in ExitCodeStreams :
           LET r == TerraformInitStepRun(codes) IN
           StepRunEnds(RunEvents("tf.init", r.calls), r.outcome)
    /\ UNCHANGED <<cmd, invocation, opts, step, admin_credentials, console,
                   openrc_vars, launch_vars, nic_vars>>

\* result = step.run(status) for ConfigureCloudStep
RunConfigureCloud ==
    /\ cmd = "configure"
    /\ pc = "run"
    /\ plan[step] = "ConfigureCloudStep"
    /\ \E codes \in ExitCodeStreams :
           LET r == ConfigureCloudStepRun(codes) IN
           StepRunEnds(RunEvents("tf.apply", r.calls), r.outcome)
    /\ UNCHANGED <<cmd, invocation, opts, step, admin_credentials, console,
                   openrc_vars, launch_vars, nic_vars>>

\* result = step.run(status) for UpdateExternalNetworkConfigStep
RunUpdateExternalNetworkConfig ==
    /\ cmd = "configure"
    /\ pc = "run"
    /\ plan[step] = "UpdateExternalNetworkConfigStep"
    /\ \E r \in UpdateExternalNetworkConfigResults :
           StepRunEnds(<<Ev("run", step, "")>>, Returns(r))
    /\ UNCHANGED <<cmd, invocation, opts, step, admin_credentials, console,
                   openrc_vars, launch_vars, nic_vars>>

\* after the status block: a Failed result is printed and raised as a
\* ClickException carrying its message, any other result is printed as done
StepInspect ==
    /\ cmd = "configure"
    /\ pc = "inspect"
    /\ IF ResultFailed(result)
       THEN /\ console' = Append(console, <<"failed", step>>)
            /\ Exit(ClickException(result.message))
            /\ UNCHANGED step
       ELSE /\ console' = Append(console, <<"done", step>>)
            /\ NextStep
            /\ UNCHANGED <<exit, status_running>>
    /\ log' = Append(log, Ev("inspect", step, result.result_type))
    /\ UNCHANGED <<cmd, invocation, opts, result, admin_credentials,
                   openrc_vars, launch_vars, nic_vars>>

\* after the loop: jhelper.disconnect_controller(), and configure returns
ConfigureDisconnect ==
    /\ cmd = "configure"
    /\ pc = "disconnect"
    /\ log' = Append(log, Ev("disconnect_controller", 0, ""))
    /\ Exit(ExitOk)
    /\ UNCHANGED <<cmd, invocation, opts, step, result, admin_credentials,
                   console, openrc_vars, launch_vars, nic_vars>>

----------------------------------------------------------------------------
(* UserOpenRCStep *)

\* the outputs of the Terraform plan, as `terraform output -json` prints them
TfOutput(username, password, user_domain, project_domain, project) ==
    ("OS_USERNAME" :> [value |-> username]) @@
    ("OS_PASSWORD" :> [value |-> password]) @@
    ("OS_USER_DOMAIN_NAME" :> [value |-> user_domain]) @@
    ("OS_PROJECT_DOMAIN_NAME" :> [value |-> project_domain]) @@
    ("OS_PROJECT_NAME" :> [value |-> project])

TfOutputs ==
    { TfOutput("demo", "demopw", "users", "users", "demo"),
      TfOutput("alice", "alicepw", "people", "projects", "lab") }

\* the same with one output missing, and the output of an empty state
IncompleteTfOutputs ==
    { NoDict,
      [k \in {"OS_USERNAME", "OS_PASSWORD", "OS_USER_DOMAIN_NAME",
              "OS_PROJECT_DOMAIN_NAME"} |-> [value |-> "demo"]] }

\* what the `terraform output -json` subprocess ends with
TfOutputProcesses ==
    { [returncode |-> c, stdout |-> [json |-> FALSE, doc |-> NoDict]] : c \in 1..MaxExitCode }
    \cup { [returncode |-> 0, stdout |-> [json |-> FALSE, doc |-> NoDict]] }
    \cup { [returncode |-> 0, stdout |-> [json |-> TRUE, doc |-> d]] :
             d \in TfOutputs \cup IncompleteTfOutputs }

\* json.loads(process.stdout)
json_loads(stdout) ==
    IF stdout.json THEN Returns(stdout.doc) ELSE Raises("JSONDecodeError", "stdout")

\* the first key of `keys`, in order, that dict d lacks; None when it has all
RECURSIVE FirstMissing(_, _)
FirstMissing(keys, d) ==
    IF keys = <<>> THEN None
    ELSE IF keys[1] \notin DOMAIN d THEN keys[1]
    ELSE FirstMissing(Tail(keys), d)

Comment(key, value) == [kind |-> "comment", key |-> key, value |-> value]

Export(key, value) == [kind |-> "export", key |-> key, value |-> value]

Yaml(key, value) == [kind |-> "yaml", key |-> key, value |-> value]

\* the text with the lines of the user name and of the password exchanged
OpenrcTextExchanged(auth_url, auth_version, tf) ==
    LET missing == FirstMissing(<<"OS_USERNAME", "OS_PASSWORD", "OS_USER_DOMAIN_NAME",
                                  "OS_PROJECT_DOMAIN_NAME", "OS_PROJECT_NAME">>, tf) IN
    IF missing # None THEN Raises("KeyError", missing)
    ELSE Returns(<< Comment("openrc for", tf["OS_USERNAME"].value),
                    Export("OS_AUTH_URL", auth_url),
                    Export("OS_PASSWORD", tf["OS_PASSWORD"].value),
                    Export("OS_USERNAME", tf["OS_USERNAME"].value),
                    Export("OS_USER_DOMAIN_NAME", tf["OS_USER_DOMAIN_NAME"].value),
                    Export("OS_PROJECT_DOMAIN_NAME", tf["OS_PROJECT_DOMAIN_NAME"].value),
                    Export("OS_PROJECT_NAME", tf["OS_PROJECT_NAME"].value),
                    Export("OS_AUTH_VERSION", auth_version),
                    Export("OS_IDENTITY_API_VERSION", auth_version) >>)

\* the f-string _openrc of _print_openrc, line by line; a missing output raises
\* KeyError when the f-string reads it
OpenrcText(auth_url, auth_version, tf) ==
    LET missing == FirstMissing(<<"OS_USERNAME", "OS_PASSWORD", "OS_USER_DOMAIN_NAME",
                                  "OS_PROJECT_DOMAIN_NAME", "OS_PROJECT_NAME">>, tf) IN
    IF missing # None THEN Raises("KeyError", missing)
    ELSE Returns(<< Comment("openrc for", tf["OS_USERNAME"].value),
                    Export("OS_AUTH_URL", auth_url),
                    Export("OS_USERNAME", tf["OS_USERNAME"].value),
                    Export("OS_PASSWORD", tf["OS_PASSWORD"].value),
                    Export("OS_USER_DOMAIN_NAME", tf["OS_USER_DOMAIN_NAME"].value),
                    Export("OS_PROJECT_DOMAIN_NAME", tf["OS_PROJECT_DOMAIN_NAME"].value),
                    Export("OS_PROJECT_NAME", tf["OS_PROJECT_NAME"].value),
                    Export("OS_AUTH_VERSION", auth_version),
                    Export("OS_IDENTITY_API_VERSION", auth_version) >>)

\* the f-string _cloudsyaml of _print_clouds_yaml
CloudsYamlText(auth_url, auth_version, tf) ==
    LET missing == FirstMissing(<<"OS_PROJECT_NAME", "OS_USERNAME", "OS_PASSWORD",
                                  "OS_USER_DOMAIN_NAME", "OS_PROJECT_DOMAIN_NAME">>, tf) IN
    IF missing # None THEN Raises("KeyError", missing)
    ELSE Returns(<< Yaml("clouds", ""), Yaml("sunbeam", ""), Yaml("auth", ""),
                    Yaml("auth_url", auth_url),
                    Yaml("project_name", tf["OS_PROJECT_NAME"].value),
                    Yaml("username", tf["OS_USERNAME"].value),
                    Yaml("password", tf["OS_PASSWORD"].value),
                    Yaml("user_domain_name", tf["OS_USER_DOMAIN_NAME"].value),
                    Yaml("project_domain_name", tf["OS_PROJECT_DOMAIN_NAME"].value),
                    Yaml("identity_api_version", auth_version) >>)

\* UserOpenRCStep(auth_url=admin_credentials["OS_AUTH_URL"],
\*                auth_version=admin_credentials["OS_AUTH_VERSION"], ...)
SelfAuthUrl == admin_credentials["OS_AUTH_URL"]

SelfAuthVersion == admin_credentials["OS_AUTH_VERSION"]

\* the text being emitted, and the path option it goes to
EmittedText(target) ==
    IF target = "openrc"
    THEN OpenrcText(SelfAuthUrl, SelfAuthVersion, tf_output)
    ELSE CloudsYamlText(SelfAuthUrl, SelfAuthVersion, tf_output)

PathOption(target) == IF target = "openrc" THEN opts.openrc ELSE opts.clouds

\* `if self.openrc:` / `if self.clouds:`
PathGiven(target) == PathOption(target) # None

\* a file that does not exist, and the states a file may be in beforehand
Absent == [exists |-> FALSE, mode |-> None, content |-> <<>>]

OldFile == [exists |-> TRUE, mode |-> "0644", content |-> <<Comment("old", "old")>>]

\* mode of a newly created file: 0666 masked by the umask
NewFileModes == {"0644", "0664"}

\* open(path, "w"): the file is created if absent, truncated if present
OpenForWrite(f, new_mode) ==
    IF f.exists
    THEN [f EXCEPT !.content = <<>>]
    ELSE [exists |-> TRUE, mode |-> new_mode, content |-> <<>>]

\* an fchmod that leaves the mode as it is
FchmodNothing(f) == f

\* os.fchmod(f.fileno(), mode=0o640)
Fchmod(f) == [f EXCEPT !.mode = "0640"]

\* recorded of a call made while the openrc or the clouds.yaml is emitted
EmitEv(op) == Ev(emitting \o "." \o op, step, "")

\* a subprocess whose exit code is not looked at
CalledProcessErrorNever(returncode) == FALSE

\* subprocess.run(..., check=True) raises CalledProcessError on a non-zero
\* exit code
CalledProcessError(returncode) == returncode # 0

\* recorded of the subprocess: whether it exited with 0
ExitClass(returncode) == IF returncode = 0 THEN "0" ELSE "nonzero"

\* the first part of run: the subprocess and json.loads
UserOpenRCTerraformOutput ==
    /\ cmd = "configure"
    /\ pc = "run"
    /\ plan[step] = "UserOpenRCStep"
    /\ \E process \in TfOutputProcesses :
           LET called == << Ev("run", step, ""),
                            Ev("tf.output", step, ExitClass(process.returncode)) >> IN
           IF CalledProcessError(process.returncode)
           THEN /\ StepRunEnds(called,
                               Returns(Failed(<<"CalledProcessError", process.returncode>>)))
                /\ UNCHANGED <<tf_output, emitting>>
           ELSE LET parsed == json_loads(process.stdout) IN
                IF parsed.raised # "none"
                THEN /\ StepRunEnds(called, parsed)
                     /\ UNCHANGED <<tf_output, emitting>>
                ELSE /\ log' = log \o called
                     /\ tf_output' = parsed.value
                     /\ emitting' = "openrc"
                     /\ pc' = "emit"
                     /\ UNCHANGED <<result, exit, status_running>>
    /\ UNCHANGED <<cmd, invocation, opts, step, admin_credentials, console,
                   files, launch_vars, nic_vars>>

\* _print_openrc or _print_clouds_yaml returned, having made the calls
\* `events`: the next one starts, or run returns Result(ResultType.COMPLETED)
EmitDone(events) ==
    IF emitting = "openrc"
    THEN /\ log' = log \o events
         /\ emitting' = "clouds"
         /\ pc' = "emit"
         /\ UNCHANGED <<result, exit, status_running>>
    ELSE /\ emitting' = "none"
         /\ StepRunEnds(events, Returns(Completed))

\* _print_openrc / _print_clouds_yaml up to open(path, "w"), or all of it when
\* the text goes to the console
UserOpenRCEmit ==
    /\ cmd = "configure"
    /\ pc = "emit"
    /\ LET text == EmittedText(emitting) IN
       IF text.raised # "none"
       THEN /\ StepRunEnds(<<>>, text)
            /\ UNCHANGED <<files, console, emitting>>
       ELSE IF PathGiven(emitting)
       THEN /\ \/ /\ \E new_mode \in NewFileModes :
                         files' = [files EXCEPT ![emitting] = OpenForWrite(@, new_mode)]
                  /\ log' = Append(log, EmitEv("open"))
                  /\ pc' = "emit_fchmod"
                  /\ UNCHANGED <<result, exit, status_running>>
               \/ /\ StepRunEnds(<<EmitEv("open")>>, Raises("OSError", "open"))
                  /\ UNCHANGED files
            /\ UNCHANGED <<console, emitting>>
       ELSE /\ console' = Append(console, <<emitting, text.value>>)
            /\ EmitDone(<<EmitEv("print")>>)
            /\ UNCHANGED files
    /\ UNCHANGED <<cmd, invocation, opts, step, admin_credentials, tf_output,
                   launch_vars, nic_vars>>

\* os.fchmod on the opened file
UserOpenRCFchmod ==
    /\ cmd = "configure"
    /\ pc = "emit_fchmod"
    /\ files' = [files EXCEPT ![emitting] = Fchmod(@)]
    /\ log' = Append(log, EmitEv("fchmod"))
    /\ pc' = "emit_write"
    /\ UNCHANGED <<cmd, invocation, opts, step, result, status_running, exit,
                   admin_credentials, tf_output, emitting, console, launch_vars,
                   nic_vars>>

\* f.write(text) and the end of the `with open` block; _print_openrc then
\* prints that it is done
UserOpenRCWrite ==
    /\ cmd = "configure"
    /\ pc = "emit_write"
    /\ \/ /\ files' = [files EXCEPT ![emitting].content = EmittedText(emitting).value]
          /\ console' = IF emitting = "openrc"
                        THEN Append(console, <<"written", "openrc">>)
                        ELSE console
          /\ EmitDone(<<EmitEv("write")>>)
       \/ /\ StepRunEnds(<<EmitEv("write")>>, Raises("OSError", "write"))
          /\ UNCHANGED <<files, console, emitting>>
    /\ UNCHANGED <<cmd, invocation, opts, step, admin_credentials, tf_output,
                   launch_vars, nic_vars>>

----------------------------------------------------------------------------
(* launch *)

\* `microstack launch [-k KEY]` is invoked
InvokeLaunch ==
    /\ pc \in {"idle", "exited"}
    /\ invocation < MaxInvocations
    /\ \E key \in {"sunbeam", "mykey"} : opts' = [key |-> key]
    /\ cmd' = "launch"
    /\ invocation' = invocation + 1
    /\ pc' = "get_admin_account"
    /\ step' = 0
    /\ result' = Unbound
    /\ status_running' = FALSE
    /\ exit' = Running
    /\ admin_credentials' = NoDict
    /\ tf_output' = NoDict
    /\ emitting' = "none"
    /\ console' = <<>>
    /\ log' = <<>>
    /\ conn' = FALSE
    /\ held' = {}
    /\ UNCHANGED <<files, cloud, key_file, nic_vars>>

\* `if action_result.get("return-code", 0) > 1` in launch
LaunchActionFailed(action_result) == DictGet(action_result, "return-code", 0) > 1

\* the local variables os_username ... os_auth_version of launch
LaunchCredentialsOf(action_result) ==
    ("OS_USERNAME" :> DictGet(action_result, "username", None)) @@
    ("OS_PASSWORD" :> DictGet(action_result, "password", None)) @@
    ("OS_AUTH_URL" :> DictGet(action_result, "public-endpoint", None)) @@
    ("OS_USER_DOMAIN_NAME" :> DictGet(action_result, "user-domain-name", None)) @@
    ("OS_PROJECT_DOMAIN_NAME" :> DictGet(action_result, "project-domain-name", None)) @@
    ("OS_PROJECT_NAME" :> DictGet(action_result, "project-name", None)) @@
    ("OS_AUTH_VERSION" :> DictGet(action_result, "api-version", None)) @@
    ("OS_IDENTITY_API_VERSION" :> DictGet(action_result, "api_version", None))

\* the first status block of launch: the get-admin-account action and the
\* check of its return-code
LaunchGetAdminAccount ==
    /\ cmd = "launch"
    /\ pc = "get_admin_account"
    /\ \E action_result \in ActionResults :
           /\ log' = Append(log, Ev("run_action", 0, ReturnCodeClass(action_result)))
           /\ IF LaunchActionFailed(action_result)
              THEN /\ Exit(ClickException(
                           "Unable to retrieve OpenStack credentials from Keystone service"))
                   /\ UNCHANGED admin_credentials
              ELSE /\ admin_credentials' = LaunchCredentialsOf(action_result)
                   /\ pc' = "connect"
                   /\ UNCHANGED <<exit, status_running>>
    /\ UNCHANGED <<cmd, invocation, opts, step, result, console, openrc_vars,
                   launch_vars, nic_vars>>

\* a stage that goes on to the next one although it raised
StageEndsSwallowing(next_pc, raised) ==
    /\ pc' = next_pc
    /\ UNCHANGED <<exit, status_running>>

\* recorded of a call of the OpenStack SDK: whether it raised
Answer(raised) == IF raised THEN "raised" ELSE ""

\* a stage of launch ends: the next stage is reached, or an exception of the
\* OpenStack SDK (or of a subprocess) leaves launch
StageEnds(next_pc, raised) ==
    IF raised
    THEN Exit(Uncaught("SDKException"))
    ELSE /\ pc' = next_pc
         /\ UNCHANGED <<exit, status_running>>

\* conn = openstack.connect(...)
LaunchConnect ==
    /\ cmd = "launch"
    /\ pc = "connect"
    /\ \E raised \in BOOLEAN :
           /\ log' = Append(log, Ev("connect", 0, Answer(raised)))
           /\ conn' = ~raised
           /\ StageEnds("check_keypair", raised)
    /\ UNCHANGED <<cmd, invocation, opts, step, result, admin_credentials,
                   console, openrc_vars, cloud, key_file, held, nic_vars>>

\* `if os.path.exists(key_path)` of check_keypair
KeyFileExists(f) == f.exists

\* openstack_conn.compute.create_keypair(name): OpenStack refuses a name it
\* holds a key pair of (409 Conflict); else it creates the key pair, unless
\* the call fails for another reason
CreateKeypairAnswers(c, name) ==
    IF name \in c.keypairs THEN {"refused"} ELSE {"created", "raised"}

\* the key pair stage: check_keypair(conn) for the default key, nothing for
\* another key. check_keypair returns at once when the key file exists; else
\* it creates the OpenStack keypair "sunbeam" (which OpenStack refuses when a
\* keypair of that name exists), writes the private key and sets mode 600
LaunchCheckKeypair ==
    /\ cmd = "launch"
    /\ pc = "check_keypair"
    /\ IF opts.key # "sunbeam"
       THEN /\ StageEnds("create_server", FALSE)
            /\ UNCHANGED <<cloud, key_file, log>>
       ELSE IF KeyFileExists(key_file)
       THEN /\ log' = Append(log, Ev("check_keypair", 0, ""))
            /\ StageEnds("create_server", FALSE)
            /\ UNCHANGED <<cloud, key_file>>
       ELSE \E answer \in CreateKeypairAnswers(cloud, "sunbeam") :
                   /\ log' = log \o << Ev("check_keypair", 0, ""),
                                        Ev("create_keypair", 0, answer) >>
                   /\ StageEnds("create_server", answer # "created")
                   /\ IF answer # "created"
                      THEN UNCHANGED <<cloud, key_file>>
                      ELSE /\ cloud' = [cloud EXCEPT !.keypairs = @ \cup {"sunbeam"}]
                           /\ key_file' = [exists |-> TRUE, mode |-> "0600",
                                           content |-> <<Comment("private_key", "sunbeam")>>]
    /\ UNCHANGED <<cmd, invocation, opts, step, result, admin_credentials,
                   console, openrc_vars, conn, held, nic_vars>>

\* the third status block up to create_server: the finds, then the server is
\* created; find_keypair returns None for a key the cloud does not hold, and
\* keypair.name then raises
LaunchCreateServer ==
    /\ cmd = "launch"
    /\ pc = "create_server"
    /\ \E answer \in (IF opts.key \in cloud.keypairs
                       THEN {"find raised", "raised", "created"}
                       ELSE {"find raised"}) :
           /\ StageEnds("wait_for_server", answer # "created")
           /\ IF answer = "find raised"
              THEN log' = Append(log, Ev("find_keypair", 0, "raised"))
              ELSE log' = log \o << Ev("find_keypair", 0, ""),
                                    Ev("create_server", 0, Answer(answer = "raised")) >>
           /\ IF answer = "created"
              THEN held' = held \cup {"server"}
              ELSE UNCHANGED held
    /\ UNCHANGED <<cmd, invocation, opts, step, result, admin_credentials,
                   console, openrc_vars, conn, cloud, key_file, nic_vars>>

\* server = conn.compute.wait_for_server(server)
LaunchWaitForServer ==
    /\ cmd = "launch"
    /\ pc = "wait_for_server"
    /\ \E raised \in BOOLEAN :
           /\ log' = Append(log, Ev("wait_for_server", 0, Answer(raised)))
           /\ StageEnds("create_ip", raised)
    /\ UNCHANGED <<cmd, invocation, opts, step, result, admin_credentials,
                   console, openrc_vars, launch_vars, nic_vars>>

\* find_network("external-network") and create_ip
LaunchCreateIp ==
    /\ cmd = "launch"
    /\ pc = "create_ip"
    /\ \E answer \in {"find raised", "raised", "created"} :
           /\ StageEnds("add_floating_ip", answer # "created")
           /\ IF answer = "find raised"
              THEN log' = Append(log, Ev("find_network", 0, "raised"))
              ELSE log' = log \o << Ev("find_network", 0, ""),
                                    Ev("create_ip", 0, Answer(answer = "raised")) >>
           /\ IF answer = "created"
              THEN held' = held \cup {"floating ip"}
              ELSE UNCHANGED held
    /\ UNCHANGED <<cmd, invocation, opts, step, result, admin_credentials,
                   console, openrc_vars, conn, cloud, key_file, nic_vars>>

\* add_floating_ip_to_server, the closing message, and launch returns
LaunchAddFloatingIp ==
    /\ cmd = "launch"
    /\ pc = "add_floating_ip"
    /\ \E raised \in BOOLEAN :
           /\ log' = Append(log, Ev("add_floating_ip_to_server", 0, Answer(raised)))
           /\ IF raised
              THEN /\ Exit(Uncaught("SDKException"))
                   /\ UNCHANGED <<console, held>>
              ELSE /\ console' = Append(console, <<"access", 0>>)
                   /\ held' = held \cup {"attached"}
                   /\ Exit(ExitOk)
    /\ UNCHANGED <<cmd, invocation, opts, step, result, admin_credentials,
                   openrc_vars, conn, cloud, key_file, nic_vars>>

----------------------------------------------------------------------------
(* get_free_nics *)

\* A host is what the four sources get_free_nics reads answer:
\*   interfaces  - netifaces.interfaces(), in its order
\*   ifaddresses - netifaces.ifaddresses(nic): the AF_LINK addresses, and the
\*                 AF_INET / AF_INET6 addresses (empty: the key is absent)
\*   virtual     - the names under /sys/devices/virtual/net
\*   bonding     - the names under /proc/net/bonding

\* get_nic_macs(nic): addrs[netifaces.AF_LINK] raises KeyError when the
\* interface has no link-layer address (the dict of netifaces.ifaddresses
\* holds the families the interface has addresses of; an absent family is
\* the empty set here)
get_nic_macs(host, nic) ==
    IF host.ifaddresses[nic].link = {}
    THEN Raises("KeyError", "AF_LINK")
    ELSE Returns(host.ifaddresses[nic].link)

\* is_configured(nic)
is_configured(host, nic) ==
    host.ifaddresses[nic].inet # {} \/ host.ifaddresses[nic].inet6 # {}

\* bond_macs of get_free_nics: the MAC addresses of all bonds, or the
\* KeyError of get_nic_macs on a bond
BondMacs(host) ==
    IF \E bond_iface \in host.bonding : get_nic_macs(host, bond_iface).raised # "none"
    THEN Raises("KeyError", "AF_LINK")
    ELSE Returns(UNION { get_nic_macs(host, bond_iface).value : bond_iface \in host.bonding })

\* the loop without its check of the virtual devices
RECURSIVE FreeNicsLoopNoVirtual(_, _, _, _)
FreeNicsLoopNoVirtual(host, bond_macs, i, acc) ==
    IF i > Len(host.interfaces) THEN Returns(acc)
    ELSE LET nic == host.interfaces[i] IN
         IF nic \in host.bonding /\ ~is_configured(host, nic)
         THEN FreeNicsLoopNoVirtual(host, bond_macs, i + 1, Append(acc, nic))
         ELSE LET macs == get_nic_macs(host, nic) IN
         IF macs.raised # "none"
         THEN macs
         ELSE IF macs.value \cap bond_macs # {}
         THEN FreeNicsLoopNoVirtual(host, bond_macs, i + 1, acc)
         ELSE IF is_configured(host, nic)
         THEN FreeNicsLoopNoVirtual(host, bond_macs, i + 1, acc)
         ELSE FreeNicsLoopNoVirtual(host, bond_macs, i + 1, Append(acc, nic))

\* the loop of get_free_nics from interface i on, candidate_nics being acc:
\* what get_free_nics returns, or the KeyError that leaves it
RECURSIVE FreeNicsLoop(_, _, _, _)
FreeNicsLoop(host, bond_macs, i, acc) ==
    IF i > Len(host.interfaces) THEN Returns(acc)
    ELSE LET nic == host.interfaces[i] IN
         IF nic \in host.bonding /\ ~is_configured(host, nic)
         THEN FreeNicsLoop(host, bond_macs, i + 1, Append(acc, nic))
         ELSE LET macs == get_nic_macs(host, nic) IN
         IF macs.raised # "none"
         THEN macs
         ELSE IF macs.value \cap bond_macs # {}
         THEN FreeNicsLoop(host, bond_macs, i + 1, acc)
         ELSE IF nic \in host.virtual
         THEN FreeNicsLoop(host, bond_macs, i + 1, acc)
         ELSE IF is_configured(host, nic)
         THEN FreeNicsLoop(host, bond_macs, i + 1, acc)
         ELSE FreeNicsLoop(host, bond_macs, i + 1, Append(acc, nic))

get_free_nics(host) ==
    LET bond_macs == BondMacs(host) IN
    IF bond_macs.raised # "none" THEN bond_macs
    ELSE FreeNicsLoop(host, bond_macs.value, 1, <<>>)

Addrs(link, inet, inet6) == [link |-> link, inet |-> inet, inet6 |-> inet6]

\* the host of the unit tests: nic_config, bond_config and the glob fixture
FixtureHost ==
    [ interfaces  |-> << "eth0", "eth1", "eth2", "eth3", "eth4", "eth5", "eth6",
                         "ovs-system", "bond0", "bond1" >>,
      ifaddresses |->
          ("eth0" :> Addrs({"eth0mac1", "eth0mac2"}, {"10.0.0.1"},
                           {"fe80::52eb:f6ff:fe5c:2300%eth0"})) @@
          ("eth1" :> Addrs({"eth1mac1", "eth1mac2"}, {"10.0.0.2"}, {})) @@
          ("eth2" :> Addrs({"bond0mac1", "eth2mac2"}, {}, {})) @@
          ("eth3" :> Addrs({"bond0mac1", "eth3mac2"}, {}, {})) @@
          ("eth4" :> Addrs({"eth40mac1", "eth4mac2"}, {}, {})) @@
          ("eth5" :> Addrs({"bond1mac1", "eth5mac2"}, {}, {})) @@
          ("eth6" :> Addrs({"bond1mac1", "eth6mac2"}, {}, {})) @@
          ("ovs-system" :> Addrs({"ovssysmac1"}, {}, {})) @@
          ("bond0" :> Addrs({"bond0mac1", "bond0mac2"}, {}, {})) @@
          ("bond1" :> Addrs({"bond1mac1", "bond1mac2"}, {"10.0.0.19"}, {})),
      virtual     |-> {"ovs-system", "bond0", "bond1"},
      bonding     |-> {"bond0", "bond1"} ]

\* enumerated hosts: up to MaxNics interfaces, each physical, virtual or a
\* bond (a bond is a virtual device), with no link-layer address or with one
\* or two of two MAC addresses, and with or without an IPv4 and an IPv6
\* address
NicNames == <<"nic1", "nic2", "nic3", "nic4">>

NicKinds == {"physical", "virtual", "bond"}

NicAttrs ==
    [ kind  : NicKinds,
      link  : {{}, {"mac1"}, {"mac2"}, {"mac1", "mac2"}},
      inet  : {{}, {"10.0.0.1"}},
      inet6 : {{}, {"fe80::1"}} ]

HostOf(attrs) ==
    [ interfaces  |-> [i \in DOMAIN attrs |-> NicNames[i]],
      ifaddresses |-> [n \in {NicNames[i] : i \in DOMAIN attrs} |->
                          LET a == attrs[CHOOSE i \in DOMAIN attrs : NicNames[i] = n]
                          IN Addrs(a.link, a.inet, a.inet6)],
      virtual     |-> {NicNames[i] : i \in {j \in DOMAIN attrs : attrs[j].kind # "physical"}},
      bonding     |-> {NicNames[i] : i \in {j \in DOMAIN attrs : attrs[j].kind = "bond"}} ]

\* the host is the fixture's, or an enumerated one
IsHost(host) ==
    \/ host = FixtureHost
    \/ \E k \in 0..MaxNics : \E attrs \in [1..k -> NicAttrs] : host = HostOf(attrs)

NoHost == [interfaces |-> <<>>, ifaddresses |-> <<>>, virtual |-> {}, bonding |-> {}]

\* one call of get_free_nics on the host
CallGetFreeNics ==
    /\ Len(nic_calls) < MaxNicCalls
    /\ nic_calls' = Append(nic_calls, get_free_nics(nics))
    /\ UNCHANGED <<cli_vars, nics, unit_step, unit_runs, prompt_vars>>

----------------------------------------------------------------------------
(* A step run on its own *)

UnitStepClasses == {"TerraformInitStep", "TerraformApplyStep", "ConfigureCloudStep"}

\* step.run() of the class, the helper's subprocess exiting with `codes`
UnitStepRun(class, codes) ==
    CASE class = "TerraformInitStep" -> TerraformInitStepRun(codes)
      [] class = "TerraformApplyStep" -> TerraformApplyStepRun(codes)
      [] OTHER -> ConfigureCloudStepRun(codes)

\* one run of the step object
UnitRun ==
    /\ unit_step \in UnitStepClasses
    /\ Len(unit_runs) < MaxUnitRuns
    /\ \E codes \in ExitCodeStreams :
           LET r == UnitStepRun(unit_step, codes) IN
           unit_runs' = Append(unit_runs,
                               [codes |-> codes, calls |-> r.calls, outcome |-> r.outcome])
    /\ UNCHANGED <<cli_vars, nics, nic_calls, unit_step, prompt_vars>>

----------------------------------------------------------------------------
(* ConfigureCloudStep: __init__, prompt and the run after it *)

\* utils.LOCAL_ACCESS and utils.REMOTE_ACCESS
LOCAL_ACCESS == "local"

REMOTE_ACCESS == "remote"

\* d[k] = v on a Python dict
Put(d, k, v) == [x \in DOMAIN d \cup {k} |-> IF x = k THEN v ELSE d[x]]

FalsyNoneOnly(v) == v = None

\* a value Python's "or" passes over: None or the empty string
Falsy(v) == v \in {None, ""}

\* stored answers of the external network section
ExternalNetworkAnswers(cidr, gateway, start, end, network_type, segmentation_id) ==
    ("cidr" :> cidr) @@ ("gateway" :> gateway) @@ ("start" :> start) @@
    ("end" :> end) @@ ("physical_network" :> "physnet1") @@
    ("network_type" :> network_type) @@ ("segmentation_id" :> segmentation_id)

UserAnswers(remote_access_location) ==
    ("username" :> "demo") @@ ("password" :> "secret") @@
    ("cidr" :> "192.168.122.0/24") @@ ("security_group_rules" :> "True") @@
    ("remote_access_location" :> remote_access_location)

\* answer banks an earlier configure may have persisted: none; a flat local
\* one; a vlan remote one with a gateway outside the default range; one whose
\* gateway, start and end are empty
AnswerBanks ==
    { NoDict,
      ("user" :> UserAnswers(LOCAL_ACCESS)) @@
      ("external_network" :>
           ExternalNetworkAnswers("10.20.20.0/24", "10.20.20.1", "10.20.20.2",
                                  "10.20.20.254", "flat", 0)),
      ("user" :> UserAnswers(REMOTE_ACCESS)) @@
      ("external_network" :>
           Put(ExternalNetworkAnswers("172.16.0.0/30", "172.16.0.2", "172.16.0.1",
                                      "172.16.0.1", "vlan", 100), "nic", "eth4")),
      ("user" :> UserAnswers(LOCAL_ACCESS)) @@
      ("external_network" :>
           ExternalNetworkAnswers("10.20.20.0/24", "", None, "", "vlan", 200)) }

Sections == {"user", "external_network"}

\* __init__: self.variables = load_answers(), a missing or empty section
\* becoming {}
InitVariables(bank) ==
    [section \in Sections |->
        IF section \in DOMAIN bank /\ DOMAIN bank[section] # {}
        THEN bank[section]
        ELSE NoDict]

\* list(ipaddress.ip_network(cidr).hosts()) of the CIDRs that may be answered
\* (the /24 is abridged to its first, second and last host); a /32 has one
\* host
HostsOf ==
    ("10.20.20.0/24" :> <<"10.20.20.1", "10.20.20.2", "10.20.20.254">>) @@
    ("172.16.0.0/30" :> <<"172.16.0.1", "172.16.0.2">>) @@
    ("10.0.0.1/32" :> <<"10.0.0.1">>)

\* what may be answered for the CIDR: the above, and one with host bits set
CidrAnswers == DOMAIN HostsOf \cup {"10.20.20.1/24"}

\* ipaddress.ip_network(cidr) and list(external_network.hosts())
ip_network_hosts(cidr) ==
    IF cidr \in DOMAIN HostsOf THEN Returns(HostsOf[cidr]) ELSE Raises("ValueError", cidr)

\* what may be typed where a default is offered: the default is taken, or
\* another value given
DefaultedAnswers(new_default) == {new_default, "10.9.9.9"}

\* VLAN ids that may be answered
VlanAnswers == {0, 100, 300}

NetworkTypeAnswers == {"flat", "vlan"}

NoLocals == [hosts |-> <<>>, default_gateway |-> None, nic_default |-> None]

\* get_free_nic(): the first free interface, or "" when there is none
get_free_nic(host) ==
    LET free == get_free_nics(host) IN
    IF free.raised # "none" THEN free
    ELSE IF Len(free.value) > 0 THEN Returns(free.value[1]) ELSE Returns("")

\* a physical interface that has no link-layer address
LinklessHost ==
    HostOf(<< [kind |-> "physical", link |-> {}, inet |-> {}, inet6 |-> {}] >>)

\* hosts prompt may run on: the fixture's, one without interfaces, one where
\* get_free_nics raises
PromptHosts == {FixtureHost, NoHost, LinklessHost}

\* prompt goes on to position next, having asked the questions `asked`
PromptGoes(next, asked) ==
    /\ prompt_pc' = next
    /\ prompt_log' = prompt_log \o asked

\* an exception leaves prompt, the questions `asked` having been asked
PromptAborts(asked) ==
    /\ prompt_pc' = "aborted"
    /\ prompt_log' = prompt_log \o asked

\* `if self.preseed_file: preseed = question_helper.read_preseed(...)`: the
\* file may be unreadable
PromptReadPreseed ==
    /\ prompt_pc = "preseed"
    /\ IF preseed_file = None
       THEN PromptGoes("user", <<>>)
       ELSE \/ PromptGoes("user", <<"read_preseed">>)
            \/ PromptAborts(<<"read_preseed">>)
    /\ UNCHANGED <<answers, loaded, variables, preseed_file, prompt_locals>>
    /\ UNCHANGED <<cli_vars, nics, nic_calls, unit_step, unit_runs>>

UserQuestions ==
    << "user.username", "user.password", "user.cidr", "user.security_group_rules",
       "user.remote_access_location" >>

\* the five questions of the user section, then the question bank of the
\* external network: ext_net_questions() calls get_free_nic() for the default
\* of its nic question, ext_net_questions_local_only() does not
PromptUser ==
    /\ prompt_pc = "user"
    /\ \E remote_access_location \in {LOCAL_ACCESS, REMOTE_ACCESS} :
           /\ variables' = [variables EXCEPT !["user"] =
                                UserAnswers(remote_access_location) @@ @]
           /\ IF remote_access_location = LOCAL_ACCESS
              THEN /\ PromptGoes("cidr", UserQuestions)
                   /\ UNCHANGED prompt_locals
              ELSE LET nic == get_free_nic(nics) IN
                   IF nic.raised # "none"
                   THEN /\ PromptAborts(UserQuestions)
                        /\ UNCHANGED prompt_locals
                   ELSE /\ PromptGoes("cidr", UserQuestions)
                        /\ prompt_locals' = [prompt_locals EXCEPT !.nic_default = nic.value]
    /\ UNCHANGED <<answers, loaded, preseed_file>>
    /\ UNCHANGED <<cli_vars, nics, nic_calls, unit_step, unit_runs>>

\* PromptExtNetCidr, were the answers persisted as soon as the CIDR is stored
PromptExtNetCidrSaving ==
    /\ prompt_pc = "cidr"
    /\ \E cidr \in CidrAnswers :
           LET hosts == ip_network_hosts(cidr) IN
           /\ variables' = [variables EXCEPT !["external_network"] = Put(@, "cidr", cidr)]
           /\ answers' = variables'
           /\ IF hosts.raised # "none"
              THEN /\ PromptAborts(<<"external_network.cidr">>)
                   /\ UNCHANGED prompt_locals
              ELSE /\ PromptGoes("gateway", <<"external_network.cidr">>)
                   /\ prompt_locals' = [prompt_locals EXCEPT !.hosts = hosts.value]
    /\ UNCHANGED <<loaded, preseed_file>>
    /\ UNCHANGED <<cli_vars, nics, nic_calls, unit_step, unit_runs>>

\* the CIDR of the external network is asked and parsed
PromptExtNetCidr ==
    /\ prompt_pc = "cidr"
    /\ \E cidr \in CidrAnswers :
           LET hosts == ip_network_hosts(cidr) IN
           /\ variables' = [variables EXCEPT !["external_network"] = Put(@, "cidr", cidr)]
           /\ IF hosts.raised # "none"
              THEN /\ PromptAborts(<<"external_network.cidr">>)
                   /\ UNCHANGED prompt_locals
              ELSE /\ PromptGoes("gateway", <<"external_network.cidr">>)
                   /\ prompt_locals' = [prompt_locals EXCEPT !.hosts = hosts.value]
    /\ UNCHANGED <<answers, loaded, preseed_file>>
    /\ UNCHANGED <<cli_vars, nics, nic_calls, unit_step, unit_runs>>

\* self.variables["external_network"][k] = v
PutExternalNetwork(k, v) ==
    [variables EXCEPT !["external_network"] = Put(@, k, v)]

\* default_gateway = stored gateway or the first host; in local mode it is
\* stored as the gateway, otherwise the nic and the gateway are asked
PromptGateway ==
    /\ prompt_pc = "gateway"
    /\ LET stored == DictGet(variables["external_network"], "gateway", None)
           hosts == prompt_locals.hosts
       IN IF Falsy(stored) /\ Len(hosts) < 1
          THEN /\ PromptAborts(<<>>)
               /\ UNCHANGED <<variables, prompt_locals>>
          ELSE LET default_gateway == IF Falsy(stored) THEN hosts[1] ELSE stored IN
               /\ prompt_locals' = [prompt_locals EXCEPT !.default_gateway = default_gateway]
               /\ IF variables["user"]["remote_access_location"] = LOCAL_ACCESS
                  THEN /\ variables' = PutExternalNetwork("gateway", default_gateway)
                       /\ PromptGoes("start", <<>>)
                  ELSE \E nic \in {prompt_locals.nic_default, "eth9"} :
                       \E gateway \in DefaultedAnswers(default_gateway) :
                           /\ variables' = [variables EXCEPT !["external_network"] =
                                  Put(Put(@, "nic", nic), "gateway", gateway)]
                           /\ PromptGoes("start", << "external_network.nic",
                                                     "external_network.gateway" >>)
    /\ UNCHANGED <<answers, loaded, preseed_file>>
    /\ UNCHANGED <<cli_vars, nics, nic_calls, unit_step, unit_runs>>

\* the start of the allocation range: its default is the stored one or the
\* second host
PromptStart ==
    /\ prompt_pc = "start"
    /\ LET stored == DictGet(variables["external_network"], "start", None)
           hosts == prompt_locals.hosts
       IN IF Falsy(stored) /\ Len(hosts) < 2
          THEN /\ PromptAborts(<<>>)
               /\ UNCHANGED variables
          ELSE LET default == IF Falsy(stored) THEN hosts[2] ELSE stored IN
               \E start \in DefaultedAnswers(default) :
                   /\ variables' = PutExternalNetwork("start", start)
                   /\ PromptGoes("end", <<"external_network.start">>)
    /\ UNCHANGED <<answers, loaded, preseed_file, prompt_locals>>
    /\ UNCHANGED <<cli_vars, nics, nic_calls, unit_step, unit_runs>>

\* the end of the allocation range: its default is the stored one or the
\* last host
PromptEnd ==
    /\ prompt_pc = "end"
    /\ LET stored == DictGet(variables["external_network"], "end", None)
           hosts == prompt_locals.hosts
       IN IF Falsy(stored) /\ Len(hosts) < 1
          THEN /\ PromptAborts(<<>>)
               /\ UNCHANGED variables
          ELSE LET default == IF Falsy(stored) THEN hosts[Len(hosts)] ELSE stored IN
               \E end \in DefaultedAnswers(default) :
                   /\ variables' = PutExternalNetwork("end", end)
                   /\ PromptGoes("network_type", <<"external_network.end">>)
    /\ UNCHANGED <<answers, loaded, preseed_file, prompt_locals>>
    /\ UNCHANGED <<cli_vars, nics, nic_calls, unit_step, unit_runs>>

\* VARIABLE_DEFAULTS["external_network"]["physical_network"]
DefaultPhysicalNetwork == "physnet1"

AsksSegmentationIdAlways(network_type) == TRUE

\* the VLAN id is asked only for network type vlan
AsksSegmentationId(network_type) == network_type = "vlan"

\* physical_network is the default; the network type is asked, and the VLAN
\* id is asked for vlan and 0 otherwise
PromptNetworkType ==
    /\ prompt_pc = "network_type"
    /\ \E network_type \in NetworkTypeAnswers :
           LET ext == Put(Put(variables["external_network"],
                              "physical_network", DefaultPhysicalNetwork),
                          "network_type", network_type)
           IN IF AsksSegmentationId(network_type)
              THEN \E segmentation_id \in VlanAnswers :
                       /\ variables' = [variables EXCEPT !["external_network"] =
                              Put(ext, "segmentation_id", segmentation_id)]
                       /\ PromptGoes("write", << "external_network.network_type",
                                                 "external_network.segmentation_id" >>)
              ELSE /\ variables' = [variables EXCEPT !["external_network"] =
                          Put(ext, "segmentation_id", 0)]
                   /\ PromptGoes("write", <<"external_network.network_type">>)
    /\ UNCHANGED <<answers, loaded, preseed_file, prompt_locals>>
    /\ UNCHANGED <<cli_vars, nics, nic_calls, unit_step, unit_runs>>

\* question_helper.write_answers(self.variables), and prompt returns
PromptWriteAnswers ==
    /\ prompt_pc = "write"
    /\ answers' = variables
    /\ PromptGoes("returned", <<"write_answers">>)
    /\ UNCHANGED <<loaded, variables, preseed_file, prompt_locals>>
    /\ UNCHANGED <<cli_vars, nics, nic_calls, unit_step, unit_runs>>

\* run of the step whose prompt returned
PromptedRun ==
    /\ prompt_pc = "returned"
    /\ \E codes \in ExitCodeStreams :
           LET r == ConfigureCloudStepRun(codes) IN
           unit_runs' = Append(unit_runs,
                               [codes |-> codes, calls |-> r.calls, outcome |-> r.outcome])
    /\ PromptGoes("ran", <<"tf.apply">>)
    /\ UNCHANGED <<answers, loaded, variables, preseed_file, prompt_locals>>
    /\ UNCHANGED <<cli_vars, nics, nic_calls, unit_step>>

----------------------------------------------------------------------------
(* Specifications *)

\* no command running yet; the output files may exist from earlier, and the
\* cloud may hold key pairs from earlier
InitCli ==
    /\ pc = "idle"
    /\ cmd = "none"
    /\ invocation = 0
    /\ opts = NoDict
    /\ step = 0
    /\ result = Unbound
    /\ status_running = FALSE
    /\ exit = Running
    /\ admin_credentials = NoDict
    /\ tf_output = NoDict
    /\ emitting = "none"
    /\ console = <<>>
    /\ log = <<>>
    /\ conn = FALSE
    /\ held = {}

InitNoNics ==
    /\ nics = NoHost
    /\ nic_calls = <<>>

InitNoUnit ==
    /\ unit_step = "none"
    /\ unit_runs = <<>>

\* no ConfigureCloudStep under study
InitNoPrompt ==
    /\ answers = NoDict
    /\ loaded = NoDict
    /\ variables = NoDict
    /\ preseed_file = None
    /\ prompt_locals = NoLocals
    /\ prompt_pc = "none"
    /\ prompt_log = <<>>

NoCloud == [keypairs |-> {}]

\* the commands configure and launch
Init ==
    /\ InitCli
    /\ files \in { [t \in {"openrc", "clouds"} |-> f] : f \in {Absent, OldFile} }
    /\ cloud \in { [NoCloud EXCEPT !.keypairs = k] : k \in {{"mykey"}, {"mykey", "sunbeam"}} }
    /\ key_file = Absent
    /\ InitNoNics
    /\ InitNoUnit
    /\ InitNoPrompt

Next ==
    \/ InvokeConfigure
    \/ ConfigureGetModels
    \/ ConfigureRetrieveAdminCredentials
    \/ StepBegin
    \/ StepPrompt
    \/ StepIsSkip
    \/ RunTerraformInit
    \/ RunConfigureCloud
    \/ UserOpenRCTerraformOutput
    \/ UserOpenRCEmit
    \/ UserOpenRCFchmod
    \/ UserOpenRCWrite
    \/ RunUpdateExternalNetworkConfig
    \/ StepInspect
    \/ ConfigureDisconnect
    \/ InvokeLaunch
    \/ LaunchGetAdminAccount
    \/ LaunchConnect
    \/ LaunchCheckKeypair
    \/ LaunchCreateServer
    \/ LaunchWaitForServer
    \/ LaunchCreateIp
    \/ LaunchAddFloatingIp

Spec == Init /\ [][Next]_vars

\* get_free_nics on every enumerated host
InitNics ==
    /\ InitCli
    /\ files = [t \in {"openrc", "clouds"} |-> Absent]
    /\ cloud = NoCloud
    /\ key_file = Absent
    /\ IsHost(nics)
    /\ nic_calls = <<>>
    /\ InitNoUnit
    /\ InitNoPrompt

NextNics == CallGetFreeNics

SpecNics == InitNics /\ [][NextNics]_vars

\* a Terraform step run on its own
InitSteps ==
    /\ InitCli
    /\ files = [t \in {"openrc", "clouds"} |-> Absent]
    /\ cloud = NoCloud
    /\ key_file = Absent
    /\ InitNoNics
    /\ unit_step \in UnitStepClasses
    /\ unit_runs = <<>>
    /\ InitNoPrompt

NextSteps == UnitRun

SpecSteps == InitSteps /\ [][NextSteps]_vars

\* a ConfigureCloudStep constructed over an answer bank: its prompt, then its
\* run
InitPrompt ==
    /\ InitCli
    /\ files = [t \in {"openrc", "clouds"} |-> Absent]
    /\ cloud = NoCloud
    /\ key_file = Absent
    /\ nics \in PromptHosts
    /\ nic_calls = <<>>
    /\ unit_step = "none"
    /\ unit_runs = <<>>
    /\ answers \in AnswerBanks
    /\ loaded = answers
    /\ variables = InitVariables(loaded)
    /\ preseed_file \in {None, "preseed.yaml"}
    /\ prompt_locals = NoLocals
    /\ prompt_pc = "preseed"
    /\ prompt_log = <<>>

NextPrompt ==
    \/ PromptReadPreseed
    \/ PromptUser
    \/ PromptExtNetCidr
    \/ PromptGateway
    \/ PromptStart
    \/ PromptEnd
    \/ PromptNetworkType
    \/ PromptWriteAnswers
    \/ PromptedRun

SpecPrompt == InitPrompt /\ [][NextPrompt]_vars

----------------------------------------------------------------------------
(* Properties of the step runner *)

\* the entries of the history made by steps of the plan
StepEntries == { i \in DOMAIN log : log[i].step >= 1 }

\* the run of a step has returned a Failed result
FailedRuns == { i \in DOMAIN log : log[i].call = "run.end" /\ log[i].ret = "FAILED" }

\* C1, in every state: once the run of a step has returned a Failed result,
\* the history holds no call of a later step and nothing after that return
\* but the look at the result; configure is about to end or has ended, and it
\* ends with a ClickException carrying the message of that result
C1_AfterFailedRun ==
    cmd = "configure" =>
        \A i \in FailedRuns :
            /\ \A j \in DOMAIN log : log[j].step <= log[i].step
            /\ \A j \in DOMAIN log : j > i => log[j] = Ev("inspect", log[i].step, "FAILED")
            /\ step = log[i].step
            /\ result.result_type = "FAILED"
            /\ pc \in {"inspect", "exited"}
            /\ pc = "exited" => exit = ClickException(result.message)

\* C1, in every step: from the state in which run has just returned a Failed
\* result, the one thing configure does is to end with that ClickException
C1_FailedRunRaises ==
    (cmd = "configure" /\ pc = "inspect" /\ result.result_type = "FAILED") =>
        /\ pc' = "exited"
        /\ exit' = ClickException(result.message)
        /\ exit'.kind = "ClickException"
        /\ step' = step

\* C1: once some step's run returns a Failed result, no later step is
\* prompted, asked is_skip or run, and configure ends by raising a
\* ClickException that carries the message of that result
C1_FailFast == []C1_AfterFailedRun /\ [][C1_FailedRunRaises]_vars

\* C1 happens: ConfigureCloudStep failed, with two steps of the plan left
C1_Witness ==
    /\ cmd = "configure"
    /\ pc = "exited"
    /\ step = 2
    /\ FailedRuns # {}
    /\ exit.kind = "ClickException"

\* is_skip() of a step has answered true
SkipAnswers == { i \in DOMAIN log : log[i].call = "is_skip" /\ log[i].ret = "True" }

\* what the runner does next after step s is over
AfterStep(s) ==
    IF s < Len(plan) THEN Ev("status.start", s + 1, "") ELSE Ev("disconnect_controller", 0, "")

\* C2: a step whose is_skip returns true never has its run invoked in that
\* invocation (nothing of that step follows the answer, and before it the
\* step was at most prompted); it is printed as done, no result is looked at
\* for it, and the runner continues with the next step of the plan
C2_SkippedStepNotRun ==
    cmd = "configure" =>
        \A i \in SkipAnswers :
            LET s == log[i].step IN
            /\ \A j \in DOMAIN log : log[j].step = s =>
                   /\ j <= i
                   /\ log[j].call \in {"status.start", "status.stop", "prompt", "is_skip"}
            /\ \E k \in DOMAIN console : console[k] = <<"done", s>>
            /\ ~ \E k \in DOMAIN console : console[k] = <<"failed", s>>
            /\ i < Len(log) => log[i + 1] = AfterStep(s)
            /\ i = Len(log) => /\ pc = (IF s < Len(plan) THEN "step" ELSE "disconnect")
                               /\ step = (IF s < Len(plan) THEN s + 1 ELSE s)
                               /\ exit = Running

\* C2 happens: the first step was skipped and the second one run
C2_Witness ==
    /\ cmd = "configure"
    /\ \E i \in SkipAnswers : log[i].step = 1
    /\ \E j \in DOMAIN log : log[j] = Ev("run", 2, "")

\* the last entry of a step that is over: it was skipped, or it was run to a
\* Completed result that the runner has looked at
EndsStep(e) ==
    \/ e = Ev("is_skip", e.step, "True")
    \/ e = Ev("inspect", e.step, "COMPLETED")

\* the Terraform subcommand the step at place s of the plan runs
HelperOfStep(s) ==
    CASE s = 1 -> "tf.init" [] s = 2 -> "tf.apply" [] s = 3 -> "tf.output" [] OTHER -> "none"

\* C3: within one invocation of configure the steps are executed strictly in
\* plan order (TerraformInitStep, ConfigureCloudStep, UserOpenRCStep,
\* UpdateExternalNetworkConfigStep): along the history an entry belongs to the
\* step of the entry before it, or it begins the next step of the plan, and
\* then the step before is over (completed or skipped) - so one step at a
\* time is active, none is left out and none is gone back to; the run of each
\* step is invoked at most once, and so is its is_skip
C3_PlanOrder ==
    cmd = "configure" =>
        /\ plan = << "TerraformInitStep", "ConfigureCloudStep", "UserOpenRCStep",
                     "UpdateExternalNetworkConfigStep" >>
        /\ \A i \in 2..Len(log) :
               LET before == log[i - 1]
                   entry  == log[i] IN
               IF entry.step >= 1
               THEN \/ entry.step = before.step
                    \/ /\ entry.step = before.step + 1
                       /\ entry = Ev("status.start", entry.step, "")
                       /\ before.step >= 1 => EndsStep(before)
               ELSE before.step >= 1 =>
                        /\ entry = Ev("disconnect_controller", 0, "")
                        /\ before.step = Len(plan)
                        /\ EndsStep(before)
        /\ \A s \in 1..Len(plan) :
               /\ Cardinality({ i \in DOMAIN log : log[i] = Ev("run", s, "") }) <= 1
               /\ Cardinality({ i \in DOMAIN log : log[i].call = "is_skip" /\ log[i].step = s }) <= 1
        /\ \A i \in DOMAIN log :
               /\ log[i].step <= IF pc = "exited" \/ pc = "disconnect" THEN Len(plan) ELSE step
               /\ log[i].call \in {"tf.init", "tf.apply", "tf.output"} =>
                      log[i].call = HelperOfStep(log[i].step)

\* C3 happens: all four steps were run, none skipped, and configure returned
C3_Witness ==
    /\ cmd = "configure"
    /\ exit = ExitOk
    /\ \A s \in 1..Len(plan) : \E i \in DOMAIN log : log[i] = Ev("run.end", s, "COMPLETED")

\* C5: if the configured control plane model is not among the models Juju
\* reports, configure raises a ClickException before the pipeline starts:
\* asking for the models is all it has done - the get-admin-account action was
\* not invoked, no TerraformHelper was made or used, no step was prompted,
\* asked is_skip or run
C5_MissingModelStopsConfigure ==
    cmd = "configure" =>
        \A i \in DOMAIN log :
            (log[i].call = "get_models" /\ log[i].ret = "missing") =>
                /\ log = <<Ev("get_models", 0, "missing")>>
                /\ pc = "exited"
                /\ exit = ClickException("Please run microstack bootstrap first")
                /\ DOMAIN admin_credentials = {}
                /\ step = 0

\* C5 happens: configure has ended on the missing model
C5_Witness ==
    /\ cmd = "configure"
    /\ pc = "exited"
    /\ log = <<Ev("get_models", 0, "missing")>>
    /\ exit.kind = "ClickException"

\* C6: in configure and in launch alike, the result of the get-admin-account
\* action becomes a ClickException exactly when its return-code is above 1,
\* an absent return-code counting as 0; when it is raised the command ends
\* there: no credentials are returned, no step of the plan runs and no
\* OpenStack connection is opened; otherwise the command goes on with the
\* credentials
C6_ReturnCodeAboveOneRaises ==
    cmd \in {"configure", "launch"} =>
        \A i \in DOMAIN log :
            log[i].call = "run_action" =>
                IF log[i].ret = "above 1"
                THEN /\ i = Len(log)
                     /\ pc = "exited"
                     /\ exit.kind = "ClickException"
                     /\ DOMAIN admin_credentials = {}
                     /\ conn = FALSE
                     /\ StepEntries = {}
                ELSE /\ DOMAIN admin_credentials # {}
                     /\ i = Len(log) => pc # "exited"

\* C6 happens: launch has ended on a return-code above 1
C6_Witness ==
    /\ cmd = "launch"
    /\ pc = "exited"
    /\ exit.kind = "ClickException"
    /\ Last(log) = Ev("run_action", 0, "above 1")

\* the steps that configure.py defines
StepsOfConfigure == {"ConfigureCloudStep", "UserOpenRCStep"}

\* C4: for ConfigureCloudStep and UserOpenRCStep no exception propagates out
\* of run into the runner loop: every run of theirs that has ended has ended
\* by returning a Result (Completed, or Failed for a failure inside run), and
\* configure never ends on an exception that is not a ClickException
C4_RunNeverRaises ==
    cmd = "configure" =>
        /\ \A i \in DOMAIN log :
               (log[i].call = "run.end" /\ plan[log[i].step] \in StepsOfConfigure) =>
                   log[i].ret \in {"COMPLETED", "FAILED"}
        /\ (pc = "exited" /\ step >= 1 /\ plan[step] \in StepsOfConfigure
               /\ \E i \in DOMAIN log : log[i] = Ev("run", step, "")) =>
                   exit.kind \in {"ClickException", "ok"}

----------------------------------------------------------------------------
(* Properties of a Terraform step run on its own *)

\* the subcommand the step class hands to the helper
SubcommandOf(class) == IF class = "TerraformInitStep" THEN "init" ELSE "apply"

\* C7: a step that wraps one Terraform helper call (TerraformInitStep -> init,
\* TerraformApplyStep and ConfigureCloudStep -> apply) calls the helper exactly
\* once per run; it returns a Completed result when the subprocess exits with
\* 0, and a Failed result carrying the text of the TerraformException when it
\* exits non-zero - whatever a second call would have brought: no retry
C7_OneHelperCallPerRun ==
    \A n \in DOMAIN unit_runs :
        LET r == unit_runs[n] IN
        /\ r.calls = 1
        /\ r.outcome.raised = "none"
        /\ IF r.codes[1] = 0
           THEN r.outcome.value.result_type = "COMPLETED"
           ELSE /\ r.outcome.value.result_type = "FAILED"
                /\ r.outcome.value.message =
                       <<"terraform", SubcommandOf(unit_step), "exited", r.codes[1]>>

\* C7 happens: ConfigureCloudStep was run with terraform failing, where a
\* second call would have succeeded
C7_Witness ==
    /\ unit_step = "ConfigureCloudStep"
    /\ \E n \in DOMAIN unit_runs :
           /\ unit_runs[n].codes[1] # 0
           /\ unit_runs[n].codes[2] = 0
           /\ unit_runs[n].outcome.value.result_type = "FAILED"

----------------------------------------------------------------------------
(* Properties of get_free_nics *)

Range(s) == { s[i] : i \in DOMAIN s }

\* listed under /proc/net/bonding
IsBond(host, n) == n \in host.bonding

\* listed under /sys/devices/virtual/net
IsVirtual(host, n) == n \in host.virtual

\* neither an IPv4 nor an IPv6 address
Unconfigured(host, n) ==
    host.ifaddresses[n].inet = {} /\ host.ifaddresses[n].inet6 = {}

SharesMacWithBond(host, n) ==
    \E b \in host.bonding : host.ifaddresses[n].link \cap host.ifaddresses[b].link # {}

\* the interfaces C8 describes
FreeByDescription(host, n) ==
    \/ IsBond(host, n) /\ Unconfigured(host, n)
    \/ /\ ~IsBond(host, n)
       /\ ~SharesMacWithBond(host, n)
       /\ ~IsVirtual(host, n)
       /\ Unconfigured(host, n)

\* the list C8 describes: the interfaces it describes, in the order of
\* netifaces.interfaces()
FreeListByDescription(host) ==
    SelectSeq(host.interfaces, LAMBDA n : FreeByDescription(host, n))

\* C8: for every set of interfaces get_free_nics returns, in the order of
\* netifaces.interfaces() and without duplicates, exactly the interfaces that
\* are (a) a bond with no IPv4 and no IPv6 address, or (b) not a bond, sharing
\* no MAC address with a bond, not virtual, with no IPv4 and no IPv6 address;
\* for the host of the unit tests the result is [eth4, bond0]
C8_FreeNicsExactly ==
    \A k \in DOMAIN nic_calls :
        /\ nic_calls[k].raised = "none"
        /\ nic_calls[k].value = FreeListByDescription(nics)
        /\ \A a, b \in DOMAIN nic_calls[k].value :
               a # b => nic_calls[k].value[a] # nic_calls[k].value[b]
        /\ nics = FixtureHost => nic_calls[k].value = <<"eth4", "bond0">>

\* get_nic_macs is asked about every bond, and about every interface that is
\* not an unconfigured bond: about every interface, then
LinkAddressesRead(host) ==
    \A n \in Range(host.interfaces) : host.ifaddresses[n].link # {}

\* C8 wherever get_free_nics returns: the list is the one C8 describes, and it
\* returns whenever the link-layer addresses it reads are there
C8_FreeNicsWhereReturned ==
    \A k \in DOMAIN nic_calls :
        /\ nic_calls[k].raised = "none" <=> LinkAddressesRead(nics)
        /\ nic_calls[k].raised = "none" =>
               /\ nic_calls[k].value = FreeListByDescription(nics)
               /\ nics = FixtureHost => nic_calls[k].value = <<"eth4", "bond0">>

\* call k of get_free_nics has returned a list
Returned(k) == nic_calls[k].raised = "none"

\* two calls on the same interfaces end alike: the same list in the same
\* order, or the same exception
SameOnEveryCall == \A a, b \in DOMAIN nic_calls : nic_calls[a] = nic_calls[b]

----------------------------------------------------------------------------
(* Properties of the generated openrc *)

OpenrcKeys ==
    << "OS_AUTH_URL", "OS_USERNAME", "OS_PASSWORD", "OS_USER_DOMAIN_NAME",
       "OS_PROJECT_DOMAIN_NAME", "OS_PROJECT_NAME", "OS_AUTH_VERSION",
       "OS_IDENTITY_API_VERSION" >>

\* where C10 says the value of an export comes from
OpenrcSource(key) ==
    CASE key = "OS_AUTH_URL" -> admin_credentials["OS_AUTH_URL"]
      [] key \in {"OS_AUTH_VERSION", "OS_IDENTITY_API_VERSION"} ->
             admin_credentials["OS_AUTH_VERSION"]
      [] OTHER -> tf_output[key].value

\* one comment line, then the eight exports in order, each from its source
IsOpenrc(text) ==
    /\ Len(text) = 1 + Len(OpenrcKeys)
    /\ text[1].kind = "comment"
    /\ \A n \in DOMAIN OpenrcKeys :
           text[n + 1] = Export(OpenrcKeys[n], OpenrcSource(OpenrcKeys[n]))

\* the openrc texts this invocation has generated: printed, or written
ConsoleOpenrc == { console[k][2] : k \in { j \in DOMAIN console : console[j][1] = "openrc" } }

OpenrcWritten == \E k \in DOMAIN console : console[k] = <<"written", "openrc">>

\* C10: the openrc text UserOpenRCStep generates is one comment line followed
\* by exactly eight export lines, in the order OS_AUTH_URL, OS_USERNAME,
\* OS_PASSWORD, OS_USER_DOMAIN_NAME, OS_PROJECT_DOMAIN_NAME, OS_PROJECT_NAME,
\* OS_AUTH_VERSION, OS_IDENTITY_API_VERSION; OS_AUTH_URL is the admin
\* credentials' auth url, both version lines carry the admin api-version, and
\* the other five values are those of the Terraform output
C10_OpenrcLines ==
    cmd = "configure" =>
        /\ \A text \in ConsoleOpenrc : IsOpenrc(text)
        /\ OpenrcWritten => IsOpenrc(files["openrc"].content)
        /\ (ConsoleOpenrc # {} \/ OpenrcWritten) =>
               admin_credentials["OS_AUTH_VERSION"]
                   = admin_credentials["OS_IDENTITY_API_VERSION"]

\* C10 happens: the openrc of user alice was written to the file, for the
\* cloud whose api-version is 2
C10_Witness ==
    /\ cmd = "configure"
    /\ OpenrcWritten
    /\ files["openrc"].content[3] = Export("OS_USERNAME", "alice")
    /\ files["openrc"].content[8] = Export("OS_AUTH_VERSION", "2")

----------------------------------------------------------------------------
(* Properties of the written credential files *)

Targets == {"openrc", "clouds"}

\* the file holds generated credentials: an export line or a yaml line
HoldsCredentials(f) ==
    \E n \in DOMAIN f.content : f.content[n].kind \in {"export", "yaml"}

\* C11: whenever UserOpenRCStep writes openrc or clouds.yaml to a path, the
\* file is opened (created or truncated), then its mode is set to 0640, and
\* only then the content is written: a write comes right after the fchmod and
\* the fchmod right after the open; and in no reachable state does either
\* file hold generated credentials with a mode other than 0640
C11_ModeBeforeContent ==
    /\ \A t \in Targets : HoldsCredentials(files[t]) => files[t].mode = "0640"
    /\ cmd = "configure" =>
           \A i \in DOMAIN log : \A t \in Targets :
               /\ log[i].call = t \o ".write" =>
                      /\ i >= 3
                      /\ log[i - 1].call = t \o ".fchmod"
                      /\ log[i - 2].call = t \o ".open"
               /\ log[i].call = t \o ".fchmod" => (i >= 2 /\ log[i - 1].call = t \o ".open")
    /\ (cmd = "configure" /\ pc = "emit_write") =>
           /\ files[emitting].content = <<>>
           /\ files[emitting].mode = "0640"

\* C11 happens: the openrc was written over a file that was there with mode
\* 0644 (the clouds.yaml, not asked for, still is)
C11_Witness ==
    /\ cmd = "configure"
    /\ files["clouds"] = OldFile
    /\ HoldsCredentials(files["openrc"])
    /\ files["openrc"].mode = "0640"
    /\ \E i \in DOMAIN log : log[i].call = "openrc.write"

----------------------------------------------------------------------------
(* Properties across invocations *)

\* C12, in every state of an invocation of configure: what the steps have
\* done so far begins with the first step of the plan (TerraformInitStep), and
\* no step whose run returned a Failed result is run again
C12_StartsAtFirstStep ==
    cmd = "configure" =>
        /\ \A i \in DOMAIN log :
               (log[i].step >= 1 /\ (i = 1 \/ log[i - 1].step = 0)) =>
                   /\ log[i] = Ev("status.start", 1, "")
                   /\ plan[log[i].step] = "TerraformInitStep"
        /\ pc \in {"get_models", "retrieve_admin_credentials"} => (step = 0 /\ StepEntries = {})
        /\ \A i \in FailedRuns :
               Cardinality({ j \in DOMAIN log : log[j] = Ev("run", log[i].step, "") }) = 1

\* C12, in every step: invoking configure forgets what an earlier invocation
\* did, wherever that one ended - no step is current, no result is bound, the
\* history is empty - and the invocation that passes the model and credential
\* checks goes to the first step
C12_InvocationForgets ==
    /\ (cmd' = "configure" /\ invocation' # invocation) =>
           /\ pc' = "get_models"
           /\ step' = 0
           /\ result' = Unbound
           /\ log' = <<>>
           /\ admin_credentials' = NoDict
           /\ tf_output' = NoDict
    /\ (cmd = "configure" /\ pc = "retrieve_admin_credentials" /\ pc' # "exited") =>
           /\ pc' = "step"
           /\ step' = 1

\* C12: across invocations of configure there is no checkpoint or resume:
\* every invocation that passes the model and credential checks starts at the
\* first step and walks the plan from there, whatever a previous invocation
\* did; within one invocation a Failed step is never run a second time
C12_NoResume == []C12_StartsAtFirstStep /\ [][C12_InvocationForgets]_vars

\* C12 happens: a second invocation of configure is at its first step, after
\* an earlier one that got as far as writing the openrc
C12_Witness ==
    /\ cmd = "configure"
    /\ invocation = 2
    /\ step = 1
    /\ pc = "run"
    /\ HoldsCredentials(files["openrc"])

----------------------------------------------------------------------------
(* Properties of the phases of a step *)

\* entry i of the history is the call `call` of step s
IsCall(i, call, s) == i \in DOMAIN log /\ log[i].call = call /\ log[i].step = s

\* C13: for each step the runner reaches, the phases come in the order prompt
\* (only for a step with prompts), is_skip, run (only if not skipped): the
\* status indicator is stopped right before the prompt and started again
\* right after it returns, before is_skip is asked; is_skip is asked with the
\* indicator running, right after the start or the restart; run comes right
\* after is_skip has answered false; ConfigureCloudStep, which has prompts, is
\* always prompted before its is_skip; and a step is prompted only when every
\* earlier step is over without a Failed result
C13_PhaseOrder ==
    cmd = "configure" =>
        /\ \A i \in DOMAIN log :
               LET s == log[i].step IN
               /\ log[i].call = "prompt" =>
                      /\ IsCall(i - 1, "status.stop", s)
                      /\ IsCall(i - 2, "status.start", s)
                      /\ \A j \in 1..(i - 1) : log[j].step = s => log[j].call \notin {"is_skip", "run"}
                      /\ \A t \in 1..(s - 1) : \E j \in 1..(i - 1) : log[j].step = t /\ EndsStep(log[j])
                      /\ (log[i].ret = "returned" /\ i < Len(log)) => IsCall(i + 1, "status.start", s)
                      /\ (log[i].ret = "raised") => (i = Len(log) /\ pc = "exited")
               /\ log[i].call = "status.stop" => IsCall(i + 1, "prompt", s)
               /\ log[i].call = "is_skip" =>
                      /\ IsCall(i - 1, "status.start", s)
                      /\ plan[s] = "ConfigureCloudStep" => IsCall(i - 2, "prompt", s)
               /\ log[i] = Ev("run", s, "") => log[i - 1] = Ev("is_skip", s, "False")
        /\ pc \in {"is_skip", "run"} => status_running
        /\ pc \in {"is_skip", "prompt"} => Last(log) = Ev("status.start", step, "")
        /\ pc = "run" => Last(log) = Ev("is_skip", step, "False")

\* C13 happens: a step was prompted and then skipped, and ConfigureCloudStep
\* after it was prompted and is run
C13_Witness ==
    /\ cmd = "configure"
    /\ \E i \in DOMAIN log : /\ log[i] = Ev("prompt", 1, "returned")
                             /\ i + 2 <= Len(log)
                             /\ log[i + 2] = Ev("is_skip", 1, "True")
    /\ \E i \in DOMAIN log : log[i] = Ev("prompt", 2, "returned")
    /\ \E i \in DOMAIN log : log[i] = Ev("run", 2, "")

----------------------------------------------------------------------------
(* Properties of launch *)

\* the calls of create_keypair in this invocation
CreateKeypairCalls == { i \in DOMAIN log : log[i].call = "create_keypair" }

\* what check_keypair leaves behind when it has created the key pair
KeypairInPlace ==
    /\ "sunbeam" \in cloud.keypairs
    /\ key_file.exists
    /\ key_file.mode = "0600"
    /\ key_file.content = <<Comment("private_key", "sunbeam")>>

\* C14 but for the creation itself: launch with another key than the default
\* never calls check_keypair or create_keypair; check_keypair calls
\* create_keypair at most once, and only when the key file is not there; a
\* key pair it has created is in the cloud, its private key in the key file
\* with mode 600
C14_KeypairFrame ==
    cmd = "launch" =>
        /\ opts.key # "sunbeam" =>
               \A i \in DOMAIN log : log[i].call \notin {"check_keypair", "create_keypair"}
        /\ Cardinality(CreateKeypairCalls) <= 1
        /\ \A i \in CreateKeypairCalls :
               /\ i >= 2 /\ log[i - 1].call = "check_keypair"
               /\ log[i].ret = "created" => KeypairInPlace
               /\ log[i].ret # "created" => (i = Len(log) /\ pc = "exited")
        /\ \A i \in DOMAIN log :
               (log[i].call = "check_keypair" /\ i + 1 \notin CreateKeypairCalls) =>
                   key_file.exists

\* C14: check_keypair returns at once when the key file is there; otherwise
\* it creates the OpenStack keypair "sunbeam" exactly once, writes the private
\* key to the key path and sets its mode to 600 (a call that fails for a
\* reason that is not the key pair's - the cloud not answering - set aside);
\* launch with another key never calls it
C14_CreatesWhenKeyFileAbsent ==
    /\ C14_KeypairFrame
    /\ cmd = "launch" => \A i \in CreateKeypairCalls : log[i].ret \in {"created", "raised"}

\* the key file is there: the key pair stage leaves cloud and key file alone
C14_KeyFileThereNothingDone ==
    (cmd = "launch" /\ pc = "check_keypair" /\ key_file.exists) =>
        UNCHANGED <<cloud, key_file>>

C14_NothingDoneAlways == [][C14_KeyFileThereNothingDone]_vars

----------------------------------------------------------------------------
(* Properties of the controller connection *)

DisconnectCalls == { i \in DOMAIN log : log[i].call = "disconnect_controller" }

\* every step of the plan is over: completed or skipped
AllStepsOver ==
    \A s \in 1..Len(plan) : \E j \in DOMAIN log : log[j].step = s /\ EndsStep(log[j])

\* C15: configure calls disconnect_controller at most once, as the last thing
\* it does, and it has called it when it has ended if and only if every step
\* of the plan was completed or skipped; a configure that ended in a
\* ClickException (missing model, failed get-admin-account action, Failed
\* step) has not called it
C15_DisconnectAfterLastStep ==
    cmd = "configure" =>
        /\ Cardinality(DisconnectCalls) <= 1
        /\ \A i \in DisconnectCalls :
               /\ i = Len(log)
               /\ log[i - 1].step = Len(plan)
               /\ AllStepsOver
               /\ pc = "exited"
               /\ exit = ExitOk
        /\ pc = "exited" => (DisconnectCalls # {} <=> AllStepsOver)
        /\ (pc = "exited" /\ exit.kind = "ClickException") => DisconnectCalls = {}
        /\ pc = "disconnect" <=> (AllStepsOver /\ DisconnectCalls = {})

\* C15 happens: configure has returned after the disconnect, one step
\* skipped and three completed
C15_Witness ==
    /\ cmd = "configure"
    /\ pc = "exited"
    /\ DisconnectCalls # {}
    /\ \E j \in DOMAIN log : log[j] = Ev("is_skip", 4, "True")
    /\ \E j \in DOMAIN log : log[j] = Ev("inspect", 3, "COMPLETED")

----------------------------------------------------------------------------
(* ConfigureCloudStep.prompt: what it persists, and when *)

PromptCalls(call) == {i \in DOMAIN prompt_log : prompt_log[i] = call}

\* the questions a completed prompt has asked, given what was answered
QuestionsDue ==
    Range(UserQuestions)
    \cup {"external_network.cidr", "external_network.start", "external_network.end",
          "external_network.network_type"}
    \cup (IF variables["user"]["remote_access_location"] = LOCAL_ACCESS
          THEN {}
          ELSE {"external_network.nic", "external_network.gateway"})
    \cup (IF variables["external_network"]["network_type"] = "vlan"
          THEN {"external_network.segmentation_id"}
          ELSE {})

\* prompt is under way or was left by an exception
PromptUnfinished ==
    prompt_pc \in {"preseed", "user", "cidr", "gateway", "start", "end",
                   "network_type", "write", "aborted"}

\* C16: prompt persists the answers (write_answers) only as its last action,
\* after every question was answered: while prompt is under way, and when it
\* was left by an exception (unreadable preseed, a CIDR that is invalid or has
\* fewer than two hosts), the persisted answer bank is what it was before the
\* call; prompt never calls Terraform; and the answers are written before run
\* applies them
C16_WriteAnswersLast ==
    /\ PromptUnfinished =>
           /\ answers = loaded
           /\ PromptCalls("write_answers") = {}
    /\ prompt_pc # "ran" => PromptCalls("tf.apply") = {}
    /\ prompt_pc \in {"returned", "ran"} =>
           \E w \in DOMAIN prompt_log :
               /\ PromptCalls("write_answers") = {w}
               /\ \A q \in QuestionsDue : \E i \in 1..(w - 1) : prompt_log[i] = q
               /\ \A i \in DOMAIN prompt_log : i > w => prompt_log[i] = "tf.apply"
               /\ answers = variables
    /\ prompt_pc = "ran" => PromptCalls("tf.apply") = {Len(prompt_log)}

\* prompt was left at the start of the allocation range, the answered CIDR
\* having one host, and the bank of the earlier run is as it was
C16_Witness ==
    /\ prompt_pc = "aborted"
    /\ "external_network.cidr" \in Range(prompt_log)
    /\ variables["external_network"]["cidr"] = "10.0.0.1/32"
    /\ DOMAIN answers # {}
    /\ answers["external_network"]["cidr"] = "10.20.20.0/24"
    /\ answers = loaded

PromptCompleted == prompt_pc \in {"returned", "ran"}

\* the gateway of the answers loaded at construction, None when there is none
PreviousGateway ==
    IF "external_network" \in DOMAIN loaded
    THEN DictGet(loaded["external_network"], "gateway", None)
    ELSE None

\* C18: after a completed prompt with local access, the stored gateway of the
\* external network is the previously loaded gateway when that is non-empty,
\* and otherwise the first host address of the CIDR answered in this prompt;
\* the gateway question was not asked
C18_LocalGateway ==
    (PromptCompleted /\ answers["user"]["remote_access_location"] = LOCAL_ACCESS) =>
        /\ answers["external_network"]["gateway"] =
               IF PreviousGateway # None /\ PreviousGateway # ""
               THEN PreviousGateway
               ELSE HostsOf[answers["external_network"]["cidr"]][1]
        /\ "external_network.gateway" \notin Range(prompt_log)

\* a gateway stored earlier is kept although another CIDR was answered
C18_Witness ==
    /\ PromptCompleted
    /\ answers["user"]["remote_access_location"] = LOCAL_ACCESS
    /\ PreviousGateway = "172.16.0.2"
    /\ loaded["external_network"]["cidr"] = "172.16.0.0/30"
    /\ answers["external_network"]["cidr"] = "10.20.20.0/24"
    /\ answers["external_network"]["gateway"] = "172.16.0.2"

\* the first host is stored where the earlier gateway was empty
C18_WitnessFirstHost ==
    /\ PromptCompleted
    /\ answers["user"]["remote_access_location"] = LOCAL_ACCESS
    /\ PreviousGateway = ""
    /\ answers["external_network"]["cidr"] = "172.16.0.0/30"
    /\ answers["external_network"]["gateway"] = "172.16.0.1"

\* C19: after every completed prompt the stored physical_network is
\* "physnet1", and if the answered network_type is not "vlan" the stored
\* segmentation_id is 0 and the VLAN question was not asked
C19_SegmentationIdAndPhysnet ==
    PromptCompleted =>
        /\ answers["external_network"]["physical_network"] = "physnet1"
        /\ answers["external_network"]["network_type"] # "vlan" =>
               /\ answers["external_network"]["segmentation_id"] = 0
               /\ "external_network.segmentation_id" \notin Range(prompt_log)

\* a VLAN id stored earlier is overwritten with 0 by a flat answer
C19_Witness ==
    /\ PromptCompleted
    /\ DOMAIN loaded # {}
    /\ loaded["external_network"]["segmentation_id"] = 200
    /\ answers["external_network"]["network_type"] = "flat"
    /\ answers["external_network"]["segmentation_id"] = 0
    /\ answers["external_network"]["physical_network"] = "physnet1"

----------------------------------------------------------------------------
(* UserOpenRCStep.run: the subprocess failing, and where the texts go *)

\* calls made while the text of target t is emitted
EmitCalls(t) == {t \o ".open", t \o ".fchmod", t \o ".write", t \o ".print"}

\* the last call of emitting the text of target t
EmitEnds(t) == {t \o ".write", t \o ".print"}

AllEmitCalls == EmitCalls("openrc") \cup EmitCalls("clouds")

\* in every state: a terraform output that exited non-zero is followed by the
\* return of a Failed result and the history holds no call emitting either
\* text; the openrc is emitted right after a terraform output that exited with
\* 0 and the clouds.yaml right after the openrc; a text is printed only
\* without its path option and a file opened only with it
C17_OutputThenOpenrcThenClouds ==
    /\ \A i \in DOMAIN log :
           log[i].call = "tf.output" /\ log[i].ret = "nonzero" =>
               /\ i + 1 <= Len(log)
               /\ log[i + 1].call = "run.end"
               /\ log[i + 1].ret = "FAILED"
               /\ \A j \in DOMAIN log : log[j].call \notin AllEmitCalls
    /\ \A i \in DOMAIN log :
           (i + 1 <= Len(log) /\ log[i + 1].call \in AllEmitCalls) =>
               LET prev == log[i]  next == log[i + 1] IN
               IF next.call \in EmitCalls("openrc")
               THEN \/ prev.call = "tf.output" /\ prev.ret = "0"
                    \/ prev.call \in EmitCalls("openrc") \ EmitEnds("openrc")
               ELSE \/ prev.call \in EmitEnds("openrc")
                    \/ prev.call \in EmitCalls("clouds") \ EmitEnds("clouds")
    /\ \A i \in DOMAIN log : \A t \in Targets :
           /\ log[i].call = t \o ".print" => PathOption(t) = None
           /\ log[i].call \in EmitCalls(t) \ {t \o ".print"} => PathOption(t) # None
    /\ \A i \in DOMAIN log :
           (log[i].call = "run.end" /\ log[i].ret = "COMPLETED"
                /\ plan[log[i].step] = "UserOpenRCStep") =>
               \A t \in Targets :
                   IF PathOption(t) # None
                   THEN /\ \E j \in 1..i : log[j].call = t \o ".write"
                        /\ HoldsCredentials(files[t])
                        /\ \A k \in DOMAIN console : console[k][1] # t
                   ELSE /\ \E j \in 1..i : log[j].call = t \o ".print"
                        /\ \E k \in DOMAIN console : console[k][1] = t

\* the calls the step taken has added to the history
NewCalls == { log'[i].call : i \in (Len(log) + 1)..Len(log') }

\* the texts with credentials that were printed
OnConsole == { k \in DOMAIN console : console[k][1] \in Targets }

\* in every step of an invocation: a file changes only by a call that emits
\* to it, a text with credentials gets on the console only by a print, and a
\* terraform output that exited non-zero changes neither
C17_OnlyEmitChanges ==
    invocation' = invocation =>
        /\ \A t \in Targets :
               files'[t] # files[t] =>
                   NewCalls \cap (EmitCalls(t) \ {t \o ".print"}) # {}
        /\ OnConsole' # OnConsole =>
               NewCalls \cap {"openrc.print", "clouds.print"} # {}
        /\ (\E i \in (Len(log) + 1)..Len(log') :
                log'[i].call = "tf.output" /\ log'[i].ret = "nonzero") =>
               /\ files' = files
               /\ console' = console
               /\ result' # result
               /\ result'.result_type = "FAILED"

\* C17: when the terraform output subprocess of UserOpenRCStep.run exits
\* non-zero, run returns a Failed result, neither file is created, truncated
\* or modified and nothing is printed; when it exits with 0, the openrc is
\* emitted before the clouds.yaml, and each goes to its file if and only if
\* its path option was given, otherwise to the console
C17_FailedOutputTouchesNothing ==
    []C17_OutputThenOpenrcThenClouds /\ [][C17_OnlyEmitChanges]_vars

\* the subprocess exited non-zero with both paths given: the run returned
\* Failed, the openrc that was there is as it was, nothing is on the console
C17_Witness ==
    /\ cmd = "configure"
    /\ \E i \in DOMAIN log : log[i].call = "tf.output" /\ log[i].ret = "nonzero"
    /\ Last(log).call = "run.end"
    /\ result.result_type = "FAILED"
    /\ opts.openrc # None
    /\ opts.clouds # None
    /\ files["openrc"] = OldFile
    /\ files["clouds"] = OldFile
    /\ OnConsole = {}

\* the subprocess exited with 0: the openrc went to its file and the
\* clouds.yaml to the console
C17_WitnessBothWays ==
    /\ cmd = "configure"
    /\ \E i \in DOMAIN log : log[i].call = "run.end" /\ log[i].ret = "COMPLETED"
                                 /\ plan[log[i].step] = "UserOpenRCStep"
    /\ opts.openrc # None
    /\ opts.clouds = None
    /\ HoldsCredentials(files["openrc"])
    /\ \E k \in DOMAIN console : console[k][1] = "clouds"

----------------------------------------------------------------------------
(* launch: the order of its stages, and what a failing stage leaves behind *)

\* the place of a call in launch: retrieve admin credentials, connect, the
\* key pair, create server, wait for server, allocate floating IP, attach it
StageRank(call) ==
    CASE call = "run_action" -> 1
      [] call = "connect" -> 2
      [] call = "check_keypair" -> 3
      [] call = "create_keypair" -> 4
      [] call = "find_keypair" -> 5
      [] call = "create_server" -> 6
      [] call = "wait_for_server" -> 7
      [] call = "find_network" -> 8
      [] call = "create_ip" -> 9
      [] call = "add_floating_ip_to_server" -> 10
      [] OTHER -> 0

\* the call did not return: it raised, was refused, or its answer made launch
\* raise
Unreturned(e) == e.ret \in {"raised", "refused", "above 1"}

\* the call that follows call `a` when `a` returned
FollowsInLaunch(a, b) ==
    CASE a = "connect" ->
             IF opts.key = "sunbeam" THEN b = "check_keypair" ELSE b = "find_keypair"
      [] a = "check_keypair" -> b \in {"create_keypair", "find_keypair"}
      [] OTHER -> StageRank(b) = StageRank(a) + 1

Made(call) == \E i \in DOMAIN log : log[i].call = call /\ ~Unreturned(log[i])

\* in every state of a launch: the history starts with the retrieval of the
\* admin credentials and each call is followed by the call of the next stage;
\* a call that raised is the last one and launch has ended with the
\* exception; what the calls that returned have created is held by the cloud
C20_StagesInOrder ==
    cmd = "launch" =>
        /\ log # <<>> => log[1].call = "run_action"
        /\ \A i \in DOMAIN log :
               /\ StageRank(log[i].call) > 0
               /\ i + 1 <= Len(log) =>
                      /\ ~Unreturned(log[i])
                      /\ FollowsInLaunch(log[i].call, log[i + 1].call)
               /\ Unreturned(log[i]) =>
                      /\ pc = "exited"
                      /\ exit.kind \in {"Exception", "ClickException"}
        /\ Made("create_keypair") =>
               "sunbeam" \in cloud.keypairs /\ key_file.exists /\ key_file.mode = "0600"
        /\ "server" \in held <=> Made("create_server")
        /\ "floating ip" \in held <=> Made("create_ip")
        /\ "attached" \in held <=> Made("add_floating_ip_to_server")
        /\ pc = "create_server" => Last(log).call \in {"connect", "check_keypair", "create_keypair"}
        /\ pc = "create_ip" => Last(log) = Ev("wait_for_server", 0, "")

\* in every step: no key pair is taken from the cloud, a key file that exists
\* stays as it is, and within a launch neither the server nor the floating IP
\* nor the attachment it created is taken from the cloud
C20_NothingRolledBack ==
    /\ cloud.keypairs \subseteq cloud'.keypairs
    /\ key_file.exists => key_file' = key_file
    /\ invocation' = invocation => held \subseteq held'

\* C20: launch performs its stages in the order retrieve admin credentials,
\* connect, key-pair check, create server, wait for server, allocate floating
\* IP, attach floating IP; the server is created only after the key-pair stage
\* returned and a floating IP allocated only after wait_for_server returned;
\* if a stage raises no later stage runs, and the key pair, server and
\* floating IP created by earlier stages are left in place
C20_StagesAndNoRollback ==
    []C20_StagesInOrder /\ [][C20_NothingRolledBack]_vars

\* the attachment raised: launch ended with the exception, and the key pair,
\* the key file, the server and the floating IP it created are there
C20_Witness ==
    /\ cmd = "launch"
    /\ pc = "exited"
    /\ exit.kind = "Exception"
    /\ Last(log) = Ev("add_floating_ip_to_server", 0, "raised")
    /\ \E i \in DOMAIN log : log[i] = Ev("create_keypair", 0, "created")
    /\ "sunbeam" \in cloud.keypairs
    /\ key_file.exists
    /\ held = {"server", "floating ip"}

\* wait_for_server raised: the server stays, no floating IP was allocated
C20_WitnessServerLeft ==
    /\ cmd = "launch"
    /\ pc = "exited"
    /\ Last(log) = Ev("wait_for_server", 0, "raised")
    /\ held = {"server"}

====
